---- MODULE Spec2Model ----
(***************************************************************************)
(* One voice session of aai_agent: the session_ws coroutine of fastapi.py  *)
(* (client receive loop, STT listener, chat tasks, tts tasks, the gather   *)
(* children of _cancel_inflight) running on one asyncio event loop, and    *)
(* VoiceAgent.chat of agent.py with its worker threads.                    *)
(*                                                                         *)
(* The event loop is a FIFO queue of ready callbacks (ready).  One loop    *)
(* action runs the task at the head of the queue from its current await    *)
(* to its next one.  A task that goes on without suspending stays at the   *)
(* head of the queue.  Events from outside the loop (client frames, STT    *)
(* events, TTS upstream events, worker threads finishing) append the task  *)
(* that waits for them to the queue.  Worker threads run concurrently with *)
(* the loop.  Sends to the client and to the upstream sockets complete     *)
(* without suspending.                                                     *)
(***************************************************************************)
EXTENDS Integers, Sequences, FiniteSets, TLC

\* ---- bounds ----
MaxTurns == 3        \* formatted Turn events STT delivers
CtlTurns == 1        \* formatted Turn events of a session that gets control frames
SttTurns == 2        \* formatted Turn events of a session that gets other STT events
AgentTurns == 2      \* formatted Turn events of a session whose chat threads are followed
MaxPartial == 1      \* Transcript / unformatted Turn events STT delivers
MaxCtl == 2          \* control frames the client sends
MaxChunks == 1       \* audio chunks one synthesis yields
MaxRunSteps == 1     \* action steps one agent run records
EndTurns == 1        \* formatted Turn events, with the session's start and end
NIds == 2            \* session ids the registry is called with
NThreads == 2        \* threads calling the registry
MaxOps == 4          \* registry calls made
MaxTime == 2         \* ticks of the clock
TtlSeconds == 2      \* ttl_seconds of a manager that expires sessions, in ticks
MaxSize == 1         \* maxsize of the TTL cache (4096 in manager.py), scaled down
MaxCalls == 2        \* constructor calls made
NoiseTurns == 2      \* formatted Turn events of a session that gets frames it has no use for
MaxWords == 2        \* words of a cleaned text, at most
LiveTurns == 2       \* formatted Turn events of a session whose agent and TTS provider answer
MaxRetries == 3      \* the `retries` argument of a WebTool, at most
SynthTurns == 2      \* formatted Turn events of a session whose answers differ in length
GreetTurns == 2      \* formatted Turn events of a session that starts with a greeting

Turns == 1..MaxTurns
TurnsOf(n) == IF n < MaxTurns THEN n ELSE MaxTurns
Owners == {"main", "lis"}

\* ---- task identities ----
NoTask == <<"none", 0>>
MainT == <<"main", 0>>
LisT == <<"lis", 0>>
ChatT(t) == <<"chat", t>>
TtsT(t) == <<"tts", t>>
ChildT(o, k) == IF o = "main" THEN <<"gcm", k>> ELSE <<"gcl", k>>
CbT(o) == IF o = "main" THEN <<"cbm", 0>> ELSE <<"cbl", 0>>
OwnerT(o) == IF o = "main" THEN MainT ELSE LisT

ChatTasks == {ChatT(t) : t \in Turns}
TtsTasks == {TtsT(t) : t \in Turns}
WorkTasks == ChatTasks \cup TtsTasks
CancelTasks == WorkTasks \cup {LisT}
ChildTasks == {ChildT(o, k) : o \in Owners, k \in 1..3}
AllTasks == {MainT, LisT} \cup WorkTasks \cup ChildTasks

NoneSaved == [set |-> FALSE, steps |-> <<>>]
SomeSaved(s) == [set |-> TRUE, steps |-> s]

Frame(ty, t) == [type |-> ty, turn |-> t, final |-> FALSE]
TranscriptFrame(f) == [type |-> "transcript", turn |-> 0, final |-> f]

VARIABLES
  pc,          \* position of every task's coroutine
  mustCancel,  \* a cancel() is pending delivery to the task
  wake,        \* result of the awaited operation, delivered with the wake-up
  waiters,     \* tasks awaiting the completion of a task, in order
  ready,       \* the event loop's FIFO queue of ready callbacks
  chat_task, tts_task,   \* the session's task handles
  ct, tt,      \* the snapshot each running _cancel_inflight holds
  pend,        \* children each running gather still waits for
  inbox,       \* client frames received and not yet read by the loop
  sttbox,      \* STT events received and not yet read by the listener
  nctl, npartial,   \* control frames and partial STT events delivered so far
  turnsLeft,   \* formatted Turn events STT will still deliver
  nturn,       \* chat tasks spawned so far
  chunks,      \* audio chunks received per synthesis
  cur,         \* VoiceAgent._current_task
  agentRef,    \* VoiceAgent._agent (0 is None; an agent is named by the turn that built it)
  saved,       \* VoiceAgent._saved_memory_steps
  mem,         \* memory.steps of every agent object built
  agOf,        \* the agent object each chat call runs on
  wpc, wres, wtmp, wsteps,   \* the worker thread of each chat call
  out,         \* frames the last step of the event loop sent to the client, in order
  tlog,        \* per turn in flight, the frames sent for it, in order
  ttsKey,      \* a TTS api key is configured
  histStart,   \* memory.steps the agent run of a turn started from
  heard,       \* the STT event the listener read last
  spk,         \* per turn, the syntheses streaming when the listener read its Turn event
  cancelAns,   \* turns whose chat call had no answer yet when a cancel frame was read
  idleCancel,  \* the last control frame read was a cancel, and no task was in flight
  resetSnap,   \* chat tasks spawned when the last reset frame was read
  fresh,       \* agent.reset() has returned and no agent run has started since
  cancelledRun, \* turns whose chat call was cancelled during the agent run
  sttOpen,     \* the upstream STT connection is open
  registered,  \* the manager's registry holds this session's agent
  sttOp,       \* what became of the last frame the receive loop sent to STT
  ttl,         \* VoiceAgentManager: ttl_seconds
  now,         \* the clock the TTL cache reads
  store,       \* VoiceAgentManager._sessions: per id, the agent and its deadline
  order,       \* the ids stored, least recently set first
  lock,        \* VoiceAgentManager._lock: the thread holding it, 0 if free
  rpc, rop, rid, ragent,   \* per thread: position, call, argument, local `agent`
  nops,        \* registry calls made so far
  nextObj,     \* VoiceAgent objects constructed so far
  closed,      \* VoiceAgent objects whose aclose() has run
  ret,         \* the call that returned last, and what its registry access yielded
  given,       \* per id, the agent get_or_create returned last and when its ttl ends
  gone,        \* per id, the agent remove took out last
  env,         \* os.environ: ASSEMBLYAI_API_KEY and RIME_API_KEY
  dotenv,      \* the same two variables in the .env file
  mgrs,        \* the VoiceAgentManager objects constructed
  agents,      \* the VoiceAgent objects constructed
  call,        \* the constructor call made last and its arguments
  raised,      \* the ValueError the last constructor call raised, "" if none
  ncalls,      \* constructor calls made so far
  greeting,    \* VoiceAgent._greeting
  resp,        \* what the last call of VoiceAgent.greet() came to
  up,          \* per synthesis, the frames sent on its open upstream connection
  web,         \* a WebTool: its _retries, and the attempts of its fetch call
  hush         \* `cancelled` was sent and no `turn` frame since (no step reads it)

vars == <<pc, mustCancel, wake, waiters, ready, chat_task, tts_task, ct, tt,
          pend, inbox, sttbox, nctl, npartial, turnsLeft, nturn, chunks,
          cur, agentRef, saved, mem, agOf, wpc, wres, wtmp, wsteps, out,
          tlog, ttsKey, histStart, heard, spk, cancelAns, idleCancel,
          resetSnap, fresh, cancelledRun, sttOpen, registered, sttOp,
          ttl, now, store, order, lock, rpc, rop, rid, ragent, nops, nextObj,
          closed, ret, given, gone,
          env, dotenv, mgrs, agents, call, raised, ncalls, greeting, resp,
          up, web, hush>>

\* the voice session
sess == <<pc, mustCancel, wake, waiters, ready, chat_task, tts_task, ct, tt,
          pend, inbox, sttbox, nctl, npartial, turnsLeft, nturn, chunks,
          cur, agentRef, saved, mem, agOf, wpc, wres, wtmp, wsteps, out,
          tlog, ttsKey, histStart, heard, spk, cancelAns, idleCancel,
          resetSnap, fresh, cancelledRun>>

\* the manager's registry and its callers
regv == <<ttl, now, store, order, lock, rpc, rop, rid, ragent, nops, nextObj,
          closed, ret, given, gone>>

\* the session's connection to STT and its registration
endv == <<sttOpen, registered, sttOp>>

\* the construction of managers and agents, the greeting and greet()
cfgv == <<env, dotenv, mgrs, agents, call, raised, ncalls, greeting, resp>>

\* what the handling of turns and control frames leaves alone
ext == <<regv, endv, cfgv, up, web, hush>>

\* observations no step of the program reads
obs == <<heard, spk, cancelAns, idleCancel, resetSnap, fresh, cancelledRun>>

\* ---- helpers ----
InSeq(x, s) == \E i \in 1..Len(s) : s[i] = x
Enq(q, x) == IF InSeq(x, q) THEN q ELSE Append(q, x)
AtHead(x) == ready # <<>> /\ Head(ready) = x
Live(x) == pc[x] \notin {"none", "done"}

TypesOf(fs, t) ==
  LET sel == SelectSeq(fs, LAMBDA f : f.turn = t)
  IN [i \in 1..Len(sel) |-> sel[i].type]
\* the receive loop has ended: the client's socket is no longer connected
ClientGone == pc[MainT] \in {"gClose", "closing", "done", "refused"}

\* _send_json / _send_bytes of the frames fs, in order: nothing is sent unless
\* the client's socket is connected
Sent(fs) ==
  LET s == IF ClientGone THEN <<>> ELSE fs
  IN /\ out' = s
     /\ tlog' = [t \in Turns |-> tlog[t] \o TypesOf(s, t)]
\* a step of the event loop that sends nothing to the client
Quiet == out' = <<>> /\ UNCHANGED tlog

\* the `not task.done()` test dropped
ShouldCancel_IgnoreDone(task) == task # NoTask

\* _cancel_task / VoiceAgent.cancel: `task is not None and not task.done()`
ShouldCancel(task) == task # NoTask /\ pc[task] # "done"

\* the task a cancel() of x reaches: a task awaiting another task forwards it
CancelReach(x) ==
  IF pc[x] = "cancelWait"
  THEN CHOOSE y \in WorkTasks : InSeq(x, waiters[y])
  ELSE x

\* _handle_turn: `if _tts_api_key and result.text`
SpawnsTts(res) == ttsKey /\ res # "empty"

\* `tts_done` sent by _handle_turn although the tts task will send it
AnswerFrames_AlwaysDone(t, res) == <<Frame("chat", t), Frame("tts_done", t)>>

\* no `tts_done` from _handle_turn when no tts task is started
AnswerFrames_NoDone(t, res) == <<Frame("chat", t)>>

\* _handle_turn after chat() returned: `chat`, and `tts_done` when no tts
\* task is started
AnswerFrames(t, res) ==
  IF SpawnsTts(res) THEN <<Frame("chat", t)>>
  ELSE <<Frame("chat", t), Frame("tts_done", t)>>

\* _cancel_inflight without `_cancel_task(ct)`
CancelTargetOf_SkipChat(o, k) == IF k = 1 THEN NoTask ELSE IF k = 2 THEN tt[o] ELSE cur

Closing_Always(o) == TRUE

\* the gather children read the handles when they run, not the snapshot
CancelTargetOf_Current(o, k) ==
  IF k = 1 THEN chat_task ELSE IF k = 2 THEN tts_task ELSE cur

\* the gather is the one of session_ws's `finally`
Closing(o) == o = "main" /\ pc[MainT] = "gClose"

\* the listener's cleanup cancels the task that runs it
CancelTargetOf_Self(o, k) ==
  IF o = "lis" /\ k = 1 THEN LisT
  ELSE IF Closing(o)
  THEN IF k = 1 THEN LisT ELSE IF k = 2 THEN ct[o] ELSE tt[o]
  ELSE IF k = 1 THEN ct[o] ELSE IF k = 2 THEN tt[o] ELSE cur

\* the task each gather child cancels: _cancel_task(ct), _cancel_task(tt)
\* and agent.cancel() in _cancel_inflight; _cancel_task(stt_listener_task),
\* _cancel_task(ct) and _cancel_task(tt) in session_ws's `finally`
CancelTargetOf(o, k) ==
  IF Closing(o)
  THEN IF k = 1 THEN LisT ELSE IF k = 2 THEN ct[o] ELSE tt[o]
  ELSE IF k = 1 THEN ct[o] ELSE IF k = 2 THEN tt[o] ELSE cur

\* conversation history the next chat call would start from
EffHist ==
  IF agentRef # 0 THEN mem[agentRef]
  ELSE IF saved.set THEN saved.steps ELSE <<>>

\* no chat task, tts task or chat call of the session is in flight
Idle == cur = NoTask /\ \A x \in WorkTasks : ~Live(x)

\* the chat task of turn t is in flight and its chat call has not returned
Unanswered(t) ==
  Live(ChatT(t)) /\ wake[ChatT(t)] \notin {"ok", "empty", "fallback", "exc"}

\* a turn whose chat task has ended and that has no task or thread running
Over(t) == pc[ChatT(t)] = "done" /\ ~Live(TtsT(t)) /\ wpc[t] = "off"

\* ---- WebTool ----

\* no WebTool constructed
NoTool == [arg |-> <<>>, retries |-> 0, log |-> <<>>, pc |-> "none",
           result |-> "none"]

\* the `retries` argument of WebTool.__init__: None (<<>>), or a number (<<n>>)
RetryArgs == {<<>>} \cup {<<n>> : n \in 0..MaxRetries}

\* `retries or self._default_retries`
RetriesOf(a) == IF a = <<>> \/ a = <<0>> THEN 1 ELSE a[1]

\* what one attempt of fetch comes to: parsed JSON, an HTTP status error
\* below 500 or from 500 up, a connection error, a timeout, a body that is
\* not JSON, any other exception
Outcomes == {"ok", "http4xx", "http5xx", "connect", "timeout", "badjson",
             "other"}

\* the outcomes after which the loop goes on to its next attempt
Retried == {"http5xx", "connect", "timeout", "badjson"}

\* WebTool(retries=a)
WebToolInit(a) ==
  /\ web.pc = "none"
  /\ web' = [arg |-> a, retries |-> RetriesOf(a), log |-> <<>>, pc |-> "made",
             result |-> "none"]
  /\ UNCHANGED <<sess, regv, endv, cfgv, up, hush>>

\* fetch is called: `for attempt in range(1, self._retries + 1)`
FetchCall ==
  /\ web.pc = "made"
  /\ web' = [web EXCEPT !.pc = "loop"]
  /\ UNCHANGED <<sess, regv, endv, cfgv, up, hush>>

\* one pass of the loop, whose request comes to o; fetch returns the parsed
\* JSON, or leaves the loop (break, or range exhausted) and returns
\* "Error: ..."
FetchAttempt(o) ==
  /\ web.pc = "loop"
  /\ Len(web.log) < web.retries
  /\ LET log == Append(web.log, o)
     IN web' = [web EXCEPT
                  !.log = log,
                  !.pc = IF o \in Retried /\ Len(log) < web.retries
                         THEN "loop" ELSE "returned",
                  !.result = IF o = "ok" THEN "json"
                             ELSE IF o \in Retried /\ Len(log) < web.retries
                             THEN "none" ELSE "error"]
  /\ UNCHANGED <<sess, regv, endv, cfgv, up, hush>>

\* ---- initial state ----

\* session_ws has accepted the client and got its agent from the manager;
\* no task of the session exists
Accepted(n) ==
  /\ ttsKey \in BOOLEAN
  /\ up = [t \in Turns |-> <<>>]
  /\ web = NoTool
  /\ hush = FALSE
  /\ turnsLeft = TurnsOf(n)
  /\ tlog = [t \in Turns |-> <<>>]
  /\ mustCancel = [x \in CancelTasks |-> FALSE]
  /\ wake = [x \in WorkTasks |-> "none"]
  /\ waiters = [x \in CancelTasks |-> <<>>]
  /\ chat_task = NoTask
  /\ ct = [o \in Owners |-> NoTask]
  /\ tt = [o \in Owners |-> NoTask]
  /\ pend = [o \in Owners |-> 0]
  /\ inbox = <<>> /\ sttbox = <<>>
  /\ nctl = 0 /\ npartial = 0
  /\ chunks = [t \in Turns |-> 0]
  /\ cur = NoTask /\ agentRef = 0 /\ saved = NoneSaved
  /\ mem = [a \in Turns |-> <<>>]
  /\ agOf = [t \in Turns |-> 0]
  /\ wpc = [t \in Turns |-> "off"]
  /\ wres = [t \in Turns |-> "none"]
  /\ wtmp = [t \in Turns |-> <<>>]
  /\ wsteps = [t \in Turns |-> 0]
  /\ histStart = [t \in Turns |-> NoneSaved]
  /\ heard = [type |-> "none", flag |-> FALSE]
  /\ spk = [t \in Turns |-> {}]
  /\ cancelAns = {}
  /\ idleCancel = FALSE
  /\ resetSnap = 0
  /\ fresh = FALSE
  /\ cancelledRun = {}
  /\ registered = TRUE
  /\ sttOp = "none"

\* session_ws is about to fetch the STT token and connect to STT
Boot(n) ==
  /\ Accepted(n)
  /\ pc = [x \in AllTasks |->
             IF x = MainT THEN "connecting"
             ELSE IF x \in ChildTasks THEN "idle" ELSE "none"]
  /\ ready = <<>> /\ tts_task = NoTask /\ nturn = 0
  /\ out = <<>>
  /\ sttOpen = FALSE

\* session_ws has connected STT, sent `ready`, started the listener and
\* reached ws.receive(); the greeting is empty
Start(n) ==
  /\ Accepted(n)
  /\ pc = [x \in AllTasks |->
             IF x \in {MainT, LisT} THEN "recv"
             ELSE IF x \in ChildTasks THEN "idle" ELSE "none"]
  /\ ready = <<>> /\ tts_task = NoTask /\ nturn = 0
  /\ out = <<Frame("ready", 0)>>
  /\ sttOpen = TRUE

\* the synthesis of the greeting is started: a greeting and a TTS key
GreetTts == greeting # "" /\ ttsKey

\* session_ws has connected STT, sent `ready`, started the listener, sent the
\* greeting, started its synthesis and reached ws.receive().  The synthesis
\* of the greeting takes slot 1 of Turns, and the spoken turns start at 2.
Greeted(n) ==
  /\ Accepted(n)
  /\ pc = [x \in AllTasks |->
             IF x \in {MainT, LisT} THEN "recv"
             ELSE IF x \in ChildTasks THEN "idle"
             ELSE IF x = TtsT(1) /\ GreetTts THEN "start" ELSE "none"]
  /\ ready = IF GreetTts THEN <<TtsT(1)>> ELSE <<>>
  /\ tts_task = IF GreetTts THEN TtsT(1) ELSE NoTask
  /\ nturn = IF GreetTts THEN 1 ELSE 0
  /\ out = IF greeting # "" THEN <<Frame("ready", 0), Frame("greeting", 0)>>
           ELSE <<Frame("ready", 0)>>
  /\ sttOpen = TRUE

\* ---- events from outside the event loop ----

\* the client sends a frame: a control frame {"type": m}, mic audio
\* ("audio"), text that is not JSON ("junk"), a JSON object of another type
\* ("other"), or JSON that is no object ("scalar")
ClientSend(m) ==
  /\ nctl < MaxCtl
  /\ ~ClientGone /\ ~InSeq("disconnect", inbox)
  /\ nctl' = nctl + 1
  /\ inbox' = Append(inbox, m)
  /\ ready' = IF pc[MainT] = "recv" THEN Enq(ready, MainT) ELSE ready
  /\ UNCHANGED <<out, tlog>>
  /\ UNCHANGED <<pc, mustCancel, wake, waiters, chat_task, tts_task, ct, tt,
                 pend, sttbox, npartial, turnsLeft, nturn, chunks, cur,
                 agentRef, saved, mem, agOf, wpc, wres, wtmp, wsteps,
                 ttsKey, histStart, obs>>
  /\ UNCHANGED ext

SttMsgs == [type : {"Transcript", "Turn"}, flag : BOOLEAN]
\* every Turn event taken as formatted
IsFormatted_AnyTurn(msg) == msg.type = "Turn"

\* `msg.get("turn_is_formatted")` of a Turn event
IsFormatted(msg) == msg.type = "Turn" /\ msg.flag

\* a Turn event whose transcript is empty once stripped; flag is its
\* turn_is_formatted
BlankEvents == [type : {"BlankTurn"}, flag : BOOLEAN]
\* `not text` after `(msg.get("transcript") or "").strip()`
IsBlank(msg) == msg.type = "BlankTurn"

\* the STT provider delivers an event (a BlankTurn event counts as a partial)
SttSend(msg) ==
  /\ sttOpen
  /\ IF IsFormatted(msg)
     THEN turnsLeft > 0 /\ turnsLeft' = turnsLeft - 1
          /\ UNCHANGED npartial
     ELSE npartial < MaxPartial /\ npartial' = npartial + 1
          /\ UNCHANGED turnsLeft
  /\ sttbox' = Append(sttbox, msg)
  /\ ready' = IF pc[LisT] = "recv" THEN Enq(ready, LisT) ELSE ready
  /\ UNCHANGED <<out, tlog>>
  /\ UNCHANGED <<pc, mustCancel, wake, waiters, chat_task, tts_task, ct, tt,
                 pend, inbox, nctl, nturn, chunks, cur, agentRef, saved, mem,
                 agOf, wpc, wres, wtmp, wsteps, ttsKey, histStart, obs>>
  /\ UNCHANGED ext

\* ---- _cancel_inflight ----

\* snapshot and clear the handles under the lock, start the gather children
CancelInflight(o, nextpc) ==
  /\ ct' = [ct EXCEPT ![o] = chat_task]
  /\ tt' = [tt EXCEPT ![o] = tts_task]
  /\ chat_task' = NoTask
  /\ tts_task' = NoTask
  /\ pend' = [pend EXCEPT ![o] = 0]
  /\ pc' = [x \in AllTasks |->
              IF x = OwnerT(o) THEN nextpc
              ELSE IF x \in {ChildT(o, k) : k \in 1..3} THEN "start"
              ELSE pc[x]]
  /\ ready' = Tail(ready) \o <<ChildT(o, 1), ChildT(o, 2), ChildT(o, 3)>>

\* the children that find something to cancel, and the task each one reaches;
\* children of a gather that was cancelled before they started never run
Cancelling(o) ==
  IF o = "lis" /\ mustCancel[LisT] THEN {}
  ELSE {k \in 1..3 : ShouldCancel(CancelTargetOf(o, k))}
Reached(o, k) == CancelReach(CancelTargetOf(o, k))

\* the listener is suspended in the gather of _cancel_inflight
LisInGather == pc[LisT] = "gTurn" /\ ~InSeq(LisT, ready)

\* the tasks the listener's gather children are awaiting, child by child: a
\* cancel() of the listener suspended in gather is passed on to them
RECURSIVE Forwarded(_)
Forwarded(k) ==
  IF k > 3 THEN <<>>
  ELSE (IF \E y \in WorkTasks : InSeq(ChildT("lis", k), waiters[y])
        THEN <<CancelReach(CHOOSE y \in WorkTasks :
                             InSeq(ChildT("lis", k), waiters[y]))>>
        ELSE <<>>) \o Forwarded(k + 1)

\* the tasks child k's cancel() marks and wakes, in order
Wakes(o, k) ==
  IF Reached(o, k) = LisT /\ LisInGather THEN Forwarded(1)
  ELSE <<Reached(o, k)>>

RECURSIVE EnqAll(_, _)
EnqAll(q, xs) == IF xs = <<>> THEN q ELSE EnqAll(Enq(q, Head(xs)), Tail(xs))

\* q with the tasks the cancelling children wake appended, child by child
RECURSIVE WakeReached(_, _, _)
WakeReached(q, o, k) ==
  IF k > 3 THEN q
  ELSE WakeReached(IF k \in Cancelling(o) THEN EnqAll(q, Wakes(o, k)) ELSE q,
                   o, k + 1)

\* the three gather children start, one after the other with nothing between
\* them: _cancel_task(ct), _cancel_task(tt) and agent.cancel() each cancel
\* their task and await it, or return at once; gather's done-callback of the
\* last child to return is the one that wakes the caller
ChildStart(o) ==
  /\ AtHead(ChildT(o, 1)) /\ pc[ChildT(o, 1)] = "start"
  /\ mustCancel' = [x \in CancelTasks |->
                      \/ mustCancel[x]
                      \/ \E k \in Cancelling(o) :
                            Reached(o, k) = x \/ InSeq(x, Wakes(o, k))]
  /\ waiters' = [x \in CancelTasks |->
                   waiters[x] \o
                   SelectSeq(<<ChildT(o, 1), ChildT(o, 2), ChildT(o, 3)>>,
                             LAMBDA c : \E k \in Cancelling(o) :
                                          c = ChildT(o, k) /\ CancelTargetOf(o, k) = x)]
  /\ pc' = [x \in AllTasks |->
               IF \E k \in 1..3 : x = ChildT(o, k) /\ k \in Cancelling(o) THEN "await"
               ELSE IF \E k \in 1..3 : x = ChildT(o, k) THEN "idle"
               ELSE pc[x]]
  /\ pend' = [pend EXCEPT ![o] = Cardinality(Cancelling(o))]
  /\ ready' = IF Cancelling(o) = {}
              THEN Append(SubSeq(ready, 4, Len(ready)), CbT(o))
              ELSE WakeReached(SubSeq(ready, 4, Len(ready)), o, 1)
  /\ ct' = [ct EXCEPT ![o] = NoTask]
  /\ tt' = [tt EXCEPT ![o] = NoTask]
  /\ Quiet
  /\ UNCHANGED <<wake, chat_task, tts_task, inbox, sttbox, nctl, npartial,
                 turnsLeft, nturn, chunks, cur, agentRef, saved, mem, agOf,
                 wpc, wres, wtmp, wsteps, ttsKey, histStart, obs>>
  /\ UNCHANGED ext

\* the awaited task is done: the child swallows its outcome and returns
ChildResume(o, k) ==
  /\ AtHead(ChildT(o, k)) /\ pc[ChildT(o, k)] = "await"
  /\ cur' = IF k = 3 /\ ~Closing(o) THEN NoTask ELSE cur
  /\ pc' = [pc EXCEPT ![ChildT(o, k)] = "idle"]
  /\ pend' = [pend EXCEPT ![o] = @ - 1]
  /\ ready' = IF pend[o] = 1 THEN Append(Tail(ready), CbT(o)) ELSE Tail(ready)
  /\ Quiet
  /\ UNCHANGED <<mustCancel, wake, waiters, chat_task, tts_task, ct, tt,
                 inbox, sttbox, nctl, npartial, turnsLeft, nturn, chunks,
                 agentRef, saved, mem, agOf, wpc, wres, wtmp, wsteps,
                 ttsKey, histStart, obs>>
  /\ UNCHANGED ext

\* gather's result is set: the caller of _cancel_inflight is woken
GatherCallback(o) ==
  /\ AtHead(CbT(o))
  /\ ready' = Append(Tail(ready), OwnerT(o))
  /\ Quiet
  /\ UNCHANGED <<pc, mustCancel, wake, waiters, chat_task, tts_task, ct, tt,
                 pend, inbox, sttbox, nctl, npartial, turnsLeft, nturn,
                 chunks, cur, agentRef, saved, mem, agOf, wpc, wres, wtmp,
                 wsteps, ttsKey, histStart, obs>>
  /\ UNCHANGED ext

\* ---- the client receive loop of session_ws ----

\* a cancel or reset frame: both start with _cancel_inflight
MainRecvCmd ==
  /\ AtHead(MainT) /\ pc[MainT] = "recv" /\ inbox # <<>>
  /\ Head(inbox) \in {"cancel", "reset"}
  /\ CancelInflight("main", IF Head(inbox) = "cancel" THEN "gCancel" ELSE "gReset")
  /\ inbox' = Tail(inbox)
  /\ Quiet
  /\ cancelAns' = IF Head(inbox) = "cancel"
                  THEN cancelAns \cup {t \in Turns : Unanswered(t)}
                  ELSE cancelAns
  /\ idleCancel' = (Head(inbox) = "cancel" /\ Idle)
  /\ resetSnap' = IF Head(inbox) = "reset" THEN nturn ELSE resetSnap
  /\ UNCHANGED <<mustCancel, wake, waiters, sttbox, nctl, npartial,
                 turnsLeft, nturn, chunks, cur, agentRef, saved, mem, agOf,
                 wpc, wres, wtmp, wsteps, ttsKey, histStart, heard, spk, fresh, cancelledRun>>
  /\ UNCHANGED ext

\* a failed clear operation ends the handling of the cancel frame
MainClearStt_Skip(ok) ==
  /\ AtHead(MainT) /\ pc[MainT] = "gCancel"
  /\ sttOp' = IF ok THEN "clear" ELSE "none"
  /\ pc' = [pc EXCEPT ![MainT] = IF ok THEN "clearing" ELSE "recv"]
  /\ ready' = IF ok \/ inbox # <<>> THEN ready ELSE Tail(ready)
  /\ Quiet
  /\ UNCHANGED <<mustCancel, wake, waiters, chat_task, tts_task, ct, tt,
                 pend, inbox, sttbox, nctl, npartial, turnsLeft, nturn, chunks,
                 cur, agentRef, saved, mem, agOf, wpc, wres, wtmp, wsteps,
                 ttsKey, histStart, obs>>
  /\ UNCHANGED <<regv, sttOpen, registered, cfgv, up, web, hush>>

\* cancel: after the barrier, `stt_ws.send({"operation": "clear"})`, which
\* returns (ok) or raises; the receive loop goes on without suspending
MainClearStt(ok) ==
  /\ AtHead(MainT) /\ pc[MainT] = "gCancel"
  /\ sttOp' = IF ok THEN "clear" ELSE "failed"
  /\ pc' = [pc EXCEPT ![MainT] = "clearing"]
  /\ Quiet
  /\ UNCHANGED <<mustCancel, wake, waiters, ready, chat_task, tts_task, ct, tt,
                 pend, inbox, sttbox, nctl, npartial, turnsLeft, nturn, chunks,
                 cur, agentRef, saved, mem, agOf, wpc, wres, wtmp, wsteps,
                 ttsKey, histStart, obs>>
  /\ UNCHANGED <<regv, sttOpen, registered, cfgv, up, web, hush>>

\* cancel: after the clear operation, emit `cancelled` and receive again
MainAfterCancel ==
  /\ AtHead(MainT) /\ pc[MainT] = "clearing"
  /\ Sent(<<Frame("cancelled", 0)>>)
  /\ hush' = TRUE
  /\ sttOp' = "none"
  /\ pc' = [pc EXCEPT ![MainT] = "recv"]
  /\ ready' = IF inbox # <<>> THEN ready ELSE Tail(ready)
  /\ UNCHANGED <<mustCancel, wake, waiters, chat_task, tts_task, ct, tt, pend,
                 inbox, sttbox, nctl, npartial, turnsLeft, nturn, chunks,
                 cur, agentRef, saved, mem, agOf, wpc, wres, wtmp, wsteps,
                 ttsKey, histStart, obs>>
  /\ UNCHANGED <<regv, sttOpen, registered, cfgv, up, web>>

\* VoiceAgent.reset after its cancel(): drop the history and the engine
ResetClear ==
  /\ saved' = NoneSaved
  /\ agentRef' = 0
  /\ fresh' = TRUE
  /\ Sent(<<Frame("reset", 0)>>)
  /\ pc' = [pc EXCEPT ![MainT] = "recv"]
  /\ ready' = IF inbox # <<>> THEN ready ELSE Tail(ready)

\* reset: after the barrier, agent.reset(); its cancel() may await a chat call
MainAfterReset ==
  /\ AtHead(MainT) /\ pc[MainT] \in {"gReset", "resetWait"}
  /\ IF pc[MainT] = "gReset" /\ ShouldCancel(cur)
     THEN /\ mustCancel' = [mustCancel EXCEPT ![CancelReach(cur)] = TRUE]
          /\ waiters' = [waiters EXCEPT ![cur] = Append(@, MainT)]
          /\ ready' = Enq(Tail(ready), CancelReach(cur))
          /\ pc' = [pc EXCEPT ![MainT] = "resetWait"]
          /\ Quiet
          /\ UNCHANGED <<saved, agentRef, cur, fresh>>
     ELSE /\ ResetClear
          /\ cur' = IF pc[MainT] = "resetWait" THEN NoTask ELSE cur
          /\ UNCHANGED <<mustCancel, waiters>>
  /\ UNCHANGED <<wake, chat_task, tts_task, ct, tt, pend, inbox, sttbox, nctl,
                 npartial, turnsLeft, nturn, chunks, mem, agOf, wpc, wres,
                 wtmp, wsteps, ttsKey, histStart, heard, spk, cancelAns, idleCancel, resetSnap,
                 cancelledRun>>
  /\ UNCHANGED ext

\* ---- _stt_listener ----

\* a Transcript event, or a Turn event that is not formatted: one transcript frame
LisRecvPartial ==
  /\ AtHead(LisT) /\ pc[LisT] = "recv" /\ sttbox # <<>>
  /\ ~mustCancel[LisT]
  /\ ~IsBlank(Head(sttbox))
  /\ ~IsFormatted(Head(sttbox))
  /\ Sent(<<TranscriptFrame(IF Head(sttbox).type = "Transcript"
                        THEN Head(sttbox).flag ELSE FALSE)>>)
  /\ sttbox' = Tail(sttbox)
  /\ heard' = Head(sttbox)
  /\ ready' = IF Tail(sttbox) # <<>> THEN ready ELSE Tail(ready)
  /\ UNCHANGED <<pc, mustCancel, wake, waiters, chat_task, tts_task, ct, tt,
                 pend, inbox, nctl, npartial, turnsLeft, nturn, chunks, cur,
                 agentRef, saved, mem, agOf, wpc, wres, wtmp, wsteps, ttsKey,
                 histStart, spk, cancelAns, idleCancel, resetSnap, fresh,
                 cancelledRun>>
  /\ UNCHANGED ext

\* a Turn event without text is handled by its turn_is_formatted alone
LisRecvBlank_AsTurn ==
  /\ AtHead(LisT) /\ pc[LisT] = "recv" /\ sttbox # <<>>
  /\ ~mustCancel[LisT]
  /\ IsBlank(Head(sttbox))
  /\ sttbox' = Tail(sttbox)
  /\ heard' = Head(sttbox)
  /\ IF Head(sttbox).flag
     THEN /\ CancelInflight("lis", "gTurn")
          /\ Quiet
     ELSE /\ Sent(<<TranscriptFrame(FALSE)>>)
          /\ ready' = IF Tail(sttbox) # <<>> THEN ready ELSE Tail(ready)
          /\ UNCHANGED <<pc, chat_task, tts_task, ct, tt, pend>>
  /\ UNCHANGED <<mustCancel, wake, waiters, inbox, nctl, npartial, turnsLeft,
                 nturn, chunks, cur, agentRef, saved, mem, agOf, wpc, wres,
                 wtmp, wsteps, ttsKey, histStart, spk, cancelAns, idleCancel,
                 resetSnap, fresh, cancelledRun>>
  /\ UNCHANGED ext

\* a Turn event whose transcript is empty or whitespace: `if not text: continue`
LisRecvBlank ==
  /\ AtHead(LisT) /\ pc[LisT] = "recv" /\ sttbox # <<>>
  /\ ~mustCancel[LisT]
  /\ IsBlank(Head(sttbox))
  /\ sttbox' = Tail(sttbox)
  /\ heard' = Head(sttbox)
  /\ ready' = IF Tail(sttbox) # <<>> THEN ready ELSE Tail(ready)
  /\ Quiet
  /\ UNCHANGED <<pc, mustCancel, wake, waiters, chat_task, tts_task, ct, tt,
                 pend, inbox, nctl, npartial, turnsLeft, nturn, chunks, cur,
                 agentRef, saved, mem, agOf, wpc, wres, wtmp, wsteps, ttsKey,
                 histStart, spk, cancelAns, idleCancel, resetSnap, fresh,
                 cancelledRun>>
  /\ UNCHANGED ext

\* a formatted Turn event: cancel in-flight work first
LisRecvTurn ==
  /\ AtHead(LisT) /\ pc[LisT] = "recv" /\ sttbox # <<>>
  /\ ~mustCancel[LisT]
  /\ IsFormatted(Head(sttbox))
  /\ CancelInflight("lis", "gTurn")
  /\ sttbox' = Tail(sttbox)
  /\ heard' = Head(sttbox)
  /\ spk' = [spk EXCEPT ![nturn + 1] = {u \in Turns : pc[TtsT(u)] = "streaming"}]
  /\ Quiet
  /\ UNCHANGED <<mustCancel, wake, waiters, inbox, nctl, npartial, turnsLeft,
                 nturn, chunks, cur, agentRef, saved, mem, agOf, wpc, wres,
                 wtmp, wsteps, ttsKey, histStart, cancelAns, idleCancel, resetSnap, fresh,
                 cancelledRun>>
  /\ UNCHANGED ext

\* after the barrier: create the chat task and store its handle
LisSpawnChat ==
  /\ AtHead(LisT) /\ pc[LisT] = "gTurn" /\ ~mustCancel[LisT]
  /\ nturn' = nturn + 1
  /\ pc' = [pc EXCEPT ![LisT] = "recv", ![ChatT(nturn + 1)] = "start"]
  /\ chat_task' = ChatT(nturn + 1)
  /\ ready' = Append(IF sttbox # <<>> THEN ready ELSE Tail(ready),
                     ChatT(nturn + 1))
  /\ out' = <<>>
  /\ tlog' = [t \in Turns |-> IF Over(t) THEN <<>> ELSE tlog[t]]
  /\ histStart' = [t \in Turns |-> IF Over(t) THEN NoneSaved ELSE histStart[t]]
  /\ spk' = [t \in Turns |-> IF Over(t) THEN {} ELSE spk[t]]
  /\ cancelAns' = {t \in cancelAns : ~Over(t)}
  /\ UNCHANGED <<mustCancel, wake, waiters, tts_task, ct, tt, pend, inbox,
                 sttbox, nctl, npartial, turnsLeft, chunks, cur, agentRef,
                 saved, mem, agOf, wpc, wres, wtmp, wsteps, ttsKey, heard, idleCancel, resetSnap,
                 fresh, cancelledRun>>
  /\ UNCHANGED ext

\* ---- completion of a chat or tts task: its waiters are woken in order ----
Finish(x) ==
  /\ pc' = [pc EXCEPT ![x] = "done"]
  /\ mustCancel' = [mustCancel EXCEPT ![x] = FALSE]
  /\ wake' = [wake EXCEPT ![x] = "none"]
  /\ waiters' = [waiters EXCEPT ![x] = <<>>]
  /\ ready' = Tail(ready) \o waiters[x]

\* VoiceAgent._invalidate_agent: the value _saved_memory_steps is left with
InvalidatedSaved ==
  IF agentRef # 0 THEN SomeSaved(mem[agentRef]) ELSE saved

\* VoiceAgent._ensure_agent: memory.steps of a freshly built engine
RestoredSteps == IF saved.set THEN saved.steps ELSE <<>>

\* ---- _handle_turn, with VoiceAgent.chat inlined ----

\* chat(): _current_task is set and the agent run is handed to a worker thread
StartRun(t, a, steps) ==
  /\ cur' = ChatT(t)
  /\ fresh' = FALSE
  /\ agOf' = [agOf EXCEPT ![t] = a]
  /\ wpc' = [wpc EXCEPT ![t] = "begin"]
  /\ histStart' = [histStart EXCEPT ![t] = SomeSaved(steps)]
  /\ pc' = [pc EXCEPT ![ChatT(t)] = "running"]

\* first step: `turn`, `thinking`, then chat(): `await self.cancel()`,
\* _ensure_agent, and the agent run if the engine exists
ChatStart(t) ==
  /\ AtHead(ChatT(t)) /\ pc[ChatT(t)] = "start" /\ ~mustCancel[ChatT(t)]
  /\ Sent(<<Frame("turn", t), Frame("thinking", t)>>)
  /\ IF ShouldCancel(cur)
     THEN /\ mustCancel' = [mustCancel EXCEPT ![CancelReach(cur)] = TRUE]
          /\ waiters' = [waiters EXCEPT ![cur] = Append(@, ChatT(t))]
          /\ ready' = Enq(Tail(ready), CancelReach(cur))
          /\ pc' = [pc EXCEPT ![ChatT(t)] = "cancelWait"]
          /\ UNCHANGED <<cur, agOf, wpc, histStart, fresh>>
     ELSE /\ IF agentRef = 0
             THEN /\ pc' = [pc EXCEPT ![ChatT(t)] = "building"]
                  /\ UNCHANGED <<cur, agOf, wpc, histStart, fresh>>
             ELSE StartRun(t, agentRef, mem[agentRef])
          /\ ready' = Tail(ready)
          /\ UNCHANGED <<mustCancel, waiters>>
  /\ UNCHANGED <<wake, chat_task, tts_task, ct, tt, pend, inbox, sttbox, nctl,
                 npartial, turnsLeft, nturn, chunks, agentRef, saved, mem,
                 wres, wtmp, wsteps, ttsKey, heard, spk, cancelAns, idleCancel, resetSnap,
                 cancelledRun>>
  /\ hush' = FALSE
  /\ UNCHANGED <<regv, endv, cfgv, up, web>>

\* chat() resumes in _ensure_agent: after `await self.cancel()` it builds the
\* engine if there is none; once the engine is built it restores the saved
\* history and starts the agent run
ChatEnsure(t) ==
  /\ AtHead(ChatT(t)) /\ pc[ChatT(t)] \in {"cancelWait", "building"}
  /\ pc[ChatT(t)] = "building" => ~mustCancel[ChatT(t)]
  /\ IF pc[ChatT(t)] = "cancelWait"
     THEN /\ IF agentRef = 0
             THEN /\ pc' = [pc EXCEPT ![ChatT(t)] = "building"]
                  /\ cur' = NoTask
                  /\ UNCHANGED <<agOf, wpc, histStart, fresh>>
             ELSE StartRun(t, agentRef, mem[agentRef])
          /\ UNCHANGED <<agentRef, mem, saved>>
     ELSE /\ agentRef' = t
          /\ mem' = [mem EXCEPT ![t] = RestoredSteps]
          /\ saved' = NoneSaved
          /\ StartRun(t, t, RestoredSteps)
  /\ mustCancel' = [mustCancel EXCEPT ![ChatT(t)] = FALSE]
  /\ wake' = [wake EXCEPT ![ChatT(t)] = "none"]
  /\ ready' = Tail(ready)
  /\ Quiet
  /\ UNCHANGED <<waiters, chat_task, tts_task, ct, tt, pend, inbox, sttbox,
                 nctl, npartial, turnsLeft, nturn, chunks, wres, wtmp,
                 wsteps, ttsKey, heard, spk, cancelAns, idleCancel, resetSnap,
                 cancelledRun>>
  /\ UNCHANGED ext

\* chat() returned: `chat` frame, then the tts task or `tts_done`
ChatResult(t) ==
  /\ AtHead(ChatT(t)) /\ pc[ChatT(t)] = "running" /\ ~mustCancel[ChatT(t)]
  /\ wake[ChatT(t)] \in {"ok", "empty", "fallback"}
  /\ cur' = NoTask
  /\ wake' = [wake EXCEPT ![ChatT(t)] = "none"]
  /\ waiters' = [waiters EXCEPT ![ChatT(t)] = <<>>]
  /\ Sent(AnswerFrames(t, wake[ChatT(t)]))
  /\ IF SpawnsTts(wake[ChatT(t)])
     THEN /\ pc' = [pc EXCEPT ![ChatT(t)] = "done", ![TtsT(t)] = "start"]
          /\ tts_task' = TtsT(t)
          /\ ready' = (Tail(ready) \o <<TtsT(t)>>) \o waiters[ChatT(t)]
     ELSE /\ pc' = [pc EXCEPT ![ChatT(t)] = "done"]
          /\ ready' = Tail(ready) \o waiters[ChatT(t)]
          /\ UNCHANGED tts_task
  /\ UNCHANGED <<mustCancel, chat_task, ct, tt, pend, inbox, sttbox, nctl,
                 npartial, turnsLeft, nturn, chunks, agentRef, saved, mem,
                 agOf, wpc, wres, wtmp, wsteps, ttsKey, histStart, obs>>
  /\ UNCHANGED ext

\* chat() raised: `error` frame
ChatFailed(t) ==
  /\ AtHead(ChatT(t)) /\ pc[ChatT(t)] = "running" /\ ~mustCancel[ChatT(t)]
  /\ wake[ChatT(t)] = "exc"
  /\ cur' = NoTask
  /\ Sent(<<Frame("error", t)>>)
  /\ Finish(ChatT(t))
  /\ UNCHANGED <<chat_task, tts_task, ct, tt, pend, inbox, sttbox, nctl,
                 npartial, turnsLeft, nturn, chunks, agentRef, saved, mem,
                 agOf, wpc, wres, wtmp, wsteps, ttsKey, histStart, obs>>
  /\ UNCHANGED ext

\* CancelledError is delivered at the chat task's await
ChatAbort(t) ==
  /\ AtHead(ChatT(t)) /\ mustCancel[ChatT(t)]
  /\ pc[ChatT(t)] \in {"start", "building", "running"}
  /\ IF pc[ChatT(t)] = "running"
     THEN /\ saved' = InvalidatedSaved
          /\ agentRef' = 0
          /\ cur' = NoTask
     ELSE UNCHANGED <<saved, agentRef, cur>>
  /\ Finish(ChatT(t))
  /\ cancelledRun' = IF pc[ChatT(t)] = "running"
                     THEN cancelledRun \cup {t} ELSE cancelledRun
  /\ Quiet
  /\ UNCHANGED <<chat_task, tts_task, ct, tt, pend, inbox, sttbox, nctl,
                 npartial, turnsLeft, nturn, chunks, mem, agOf, wpc, wres,
                 wtmp, wsteps, ttsKey, histStart, heard, spk, cancelAns, idleCancel, resetSnap, fresh>>
  /\ UNCHANGED ext

\* the thread building the engine finishes
BuildDone(t) ==
  /\ pc[ChatT(t)] = "building" /\ ~InSeq(ChatT(t), ready)
  /\ wake[ChatT(t)] = "none"
  /\ wake' = [wake EXCEPT ![ChatT(t)] = "built"]
  /\ ready' = Append(ready, ChatT(t))
  /\ UNCHANGED <<out, tlog>>
  /\ UNCHANGED <<pc, mustCancel, waiters, chat_task, tts_task, ct, tt, pend,
                 inbox, sttbox, nctl, npartial, turnsLeft, nturn, chunks,
                 cur, agentRef, saved, mem, agOf, wpc, wres, wtmp, wsteps,
                 ttsKey, histStart, obs>>
  /\ UNCHANGED ext

\* ---- _tts_relay ----

\* a tts task ends
TtsFinish(t) ==
  /\ Finish(TtsT(t))
  /\ chunks' = [chunks EXCEPT ![t] = 0]

\* first step: normalize the text, start connecting upstream
TtsStart(t) ==
  /\ AtHead(TtsT(t)) /\ pc[TtsT(t)] = "start" /\ ~mustCancel[TtsT(t)]
  /\ pc' = [pc EXCEPT ![TtsT(t)] = "connecting"]
  /\ ready' = Tail(ready)
  /\ Quiet
  /\ UNCHANGED <<mustCancel, wake, waiters, chat_task, tts_task, ct, tt, pend,
                 inbox, sttbox, nctl, npartial, turnsLeft, nturn, chunks,
                 cur, agentRef, saved, mem, agOf, wpc, wres, wtmp, wsteps,
                 ttsKey, histStart, obs>>
  /\ UNCHANGED ext

\* the frames sent for a cleaned text of n words: `_tts_config_json`, one
\* frame per word of `cleaned.split()`, "__END__"
UpstreamFrames(n) == <<"config">> \o [i \in 1..n |-> "text"] \o <<"__END__">>

\* the upstream connection of a synthesis is closed (`async with` is left)
UpstreamClosed(t) == up' = [up EXCEPT ![t] = <<>>]

\* connected: config, the n words of the cleaned text and __END__ are sent,
\* then wait for audio
TtsSendText(t, n) ==
  /\ AtHead(TtsT(t)) /\ pc[TtsT(t)] = "connecting" /\ ~mustCancel[TtsT(t)]
  /\ wake[TtsT(t)] = "ok"
  /\ pc' = [pc EXCEPT ![TtsT(t)] = "streaming"]
  /\ wake' = [wake EXCEPT ![TtsT(t)] = "none"]
  /\ up' = [up EXCEPT ![t] = UpstreamFrames(n)]
  /\ ready' = Tail(ready)
  /\ Quiet
  /\ UNCHANGED <<mustCancel, waiters, chat_task, tts_task, ct, tt, pend,
                 inbox, sttbox, nctl, npartial, turnsLeft, nturn, chunks,
                 cur, agentRef, saved, mem, agOf, wpc, wres, wtmp, wsteps,
                 ttsKey, histStart, obs>>
  /\ UNCHANGED <<regv, endv, cfgv, web, hush>>

\* connected, for a text whose cleaned form is one word
TtsConnected(t) == TtsSendText(t, 1)

\* one binary message from upstream is relayed to the client
TtsRelay(t) ==
  /\ AtHead(TtsT(t)) /\ pc[TtsT(t)] = "streaming" /\ ~mustCancel[TtsT(t)]
  /\ wake[TtsT(t)] = "chunk"
  /\ Sent(<<Frame("audio", t)>>)
  /\ wake' = [wake EXCEPT ![TtsT(t)] = "none"]
  /\ ready' = Tail(ready)
  /\ UNCHANGED <<pc, mustCancel, waiters, chat_task, tts_task, ct, tt, pend,
                 inbox, sttbox, nctl, npartial, turnsLeft, nturn, chunks,
                 cur, agentRef, saved, mem, agOf, wpc, wres, wtmp, wsteps,
                 ttsKey, histStart, obs>>
  /\ UNCHANGED ext

\* upstream closed normally: `tts_done`
TtsDone(t) ==
  /\ AtHead(TtsT(t)) /\ pc[TtsT(t)] = "streaming" /\ ~mustCancel[TtsT(t)]
  /\ wake[TtsT(t)] = "eof"
  /\ Sent(<<Frame("tts_done", t)>>)
  /\ TtsFinish(t)
  /\ UNCHANGED <<chat_task, tts_task, ct, tt, pend, inbox, sttbox, nctl,
                 npartial, turnsLeft, nturn, cur, agentRef, saved,
                 mem, agOf, wpc, wres, wtmp, wsteps, ttsKey, histStart, obs>>
  /\ UpstreamClosed(t)
  /\ UNCHANGED <<regv, endv, cfgv, web, hush>>

\* connect failed or the stream broke: `error` frame
TtsFailed(t) ==
  /\ AtHead(TtsT(t)) /\ pc[TtsT(t)] \in {"connecting", "streaming"}
  /\ ~mustCancel[TtsT(t)]
  /\ wake[TtsT(t)] \in {"fail", "err"}
  /\ Sent(<<Frame("error", t)>>)
  /\ TtsFinish(t)
  /\ UNCHANGED <<chat_task, tts_task, ct, tt, pend, inbox, sttbox, nctl,
                 npartial, turnsLeft, nturn, cur, agentRef, saved,
                 mem, agOf, wpc, wres, wtmp, wsteps, ttsKey, histStart, obs>>
  /\ UpstreamClosed(t)
  /\ UNCHANGED <<regv, endv, cfgv, web, hush>>

\* CancelledError is delivered: inside `async with` the upstream connection
\* is closed first, and the task ends when the close completes
TtsAbort(t) ==
  /\ AtHead(TtsT(t))
  /\ \/ mustCancel[TtsT(t)]
        /\ pc[TtsT(t)] \in {"start", "connecting", "streaming", "closing"}
     \/ pc[TtsT(t)] = "closing" /\ wake[TtsT(t)] = "closed"
  /\ IF pc[TtsT(t)] = "streaming"
     THEN /\ pc' = [pc EXCEPT ![TtsT(t)] = "closing"]
          /\ mustCancel' = [mustCancel EXCEPT ![TtsT(t)] = FALSE]
          /\ wake' = [wake EXCEPT ![TtsT(t)] = "none"]
          /\ ready' = Tail(ready)
          /\ UNCHANGED <<waiters, chunks>>
     ELSE TtsFinish(t)
  /\ Quiet
  /\ UNCHANGED <<chat_task, tts_task, ct, tt, pend, inbox, sttbox, nctl,
                 npartial, turnsLeft, nturn, cur, agentRef, saved,
                 mem, agOf, wpc, wres, wtmp, wsteps, ttsKey, histStart, obs>>
  /\ IF pc[TtsT(t)] = "streaming" THEN UNCHANGED up ELSE UpstreamClosed(t)
  /\ UNCHANGED <<regv, endv, cfgv, web, hush>>

\* what the TTS upstream can answer at each await of the relay
UpstreamEvents(p) ==
  IF p = "connecting" THEN {"ok", "fail"}
  ELSE IF p = "streaming" THEN {"chunk", "eof", "err"}
  ELSE IF p = "closing" THEN {"closed"}
  ELSE {}

\* the TTS upstream answers the await the relay is suspended in
TtsUpstream(t, ev) ==
  /\ ev \in UpstreamEvents(pc[TtsT(t)])
  /\ ~InSeq(TtsT(t), ready) /\ wake[TtsT(t)] = "none"
  /\ ev = "chunk" => chunks[t] < MaxChunks
  /\ chunks' = IF ev = "chunk" THEN [chunks EXCEPT ![t] = @ + 1] ELSE chunks
  /\ wake' = [wake EXCEPT ![TtsT(t)] = ev]
  /\ ready' = Append(ready, TtsT(t))
  /\ UNCHANGED <<out, tlog>>
  /\ UNCHANGED <<pc, mustCancel, waiters, chat_task, tts_task, ct, tt, pend,
                 inbox, sttbox, nctl, npartial, turnsLeft, nturn, cur,
                 agentRef, saved, mem, agOf, wpc, wres, wtmp, wsteps,
                 ttsKey, histStart, obs>>
  /\ UNCHANGED ext

\* ---- the worker thread of a chat call: run() of VoiceAgent.chat ----

wUnch == <<pc, mustCancel, wake, waiters, ready, chat_task, tts_task, ct, tt,
           pend, inbox, sttbox, nctl, npartial, turnsLeft, nturn, chunks,
           cur, agOf, out, tlog, ttsKey, histStart, obs, ext>>

\* agent.run records the task in memory.steps
WRunTask(t) ==
  /\ wpc[t] = "begin"
  /\ mem' = [mem EXCEPT ![agOf[t]] = Append(@, <<t, "task">>)]
  /\ wpc' = [wpc EXCEPT ![t] = "steps"]
  /\ UNCHANGED <<wUnch, agentRef, saved, wres, wtmp, wsteps>>

\* agent.run records an action step
WRunStep(t) ==
  /\ wpc[t] = "steps" /\ wsteps[t] < MaxRunSteps
  /\ mem' = [mem EXCEPT ![agOf[t]] = Append(@, <<t, "step">>)]
  /\ wsteps' = [wsteps EXCEPT ![t] = @ + 1]
  /\ UNCHANGED <<wUnch, agentRef, saved, wres, wtmp, wpc>>

\* agent.run returns an answer (r = "empty": the answer is the empty string)
\* or raises an exception other than UnboundLocalError (r = "exc")
WRunEnd(t, r) ==
  /\ wpc[t] = "steps" /\ r \in {"ok", "empty", "exc"}
  /\ wres' = [wres EXCEPT ![t] = r]
  /\ wpc' = [wpc EXCEPT ![t] = "ret"]
  /\ UNCHANGED <<wUnch, agentRef, saved, mem, wtmp, wsteps>>

\* agent.run raises UnboundLocalError: run() goes into _invalidate_agent
WRunFault(t) ==
  /\ wpc[t] = "steps"
  /\ wpc' = [wpc EXCEPT ![t] = "inv2"]
  /\ UNCHANGED <<wUnch, agentRef, saved, mem, wres, wtmp, wsteps>>

\* _invalidate_agent in the worker: `if self._agent is not None`, then
\* `list(self._agent.memory.steps)`
WInvRead(t) ==
  /\ wpc[t] = "inv2"
  /\ IF agentRef # 0
     THEN /\ wtmp' = [wtmp EXCEPT ![t] = mem[agentRef]]
          /\ wpc' = [wpc EXCEPT ![t] = "inv3"]
     ELSE /\ wpc' = [wpc EXCEPT ![t] = "inv4"]
          /\ UNCHANGED wtmp
  /\ UNCHANGED <<wUnch, agentRef, saved, mem, wres, wsteps>>

\* `self._saved_memory_steps = ...`
WInvWrite(t) ==
  /\ wpc[t] = "inv3"
  /\ saved' = SomeSaved(wtmp[t])
  /\ wtmp' = [wtmp EXCEPT ![t] = <<>>]
  /\ wpc' = [wpc EXCEPT ![t] = "inv4"]
  /\ UNCHANGED <<wUnch, agentRef, mem, wres, wsteps>>

\* `self._agent = None`, then run() returns the fallback text
WInvClear(t) ==
  /\ wpc[t] = "inv4"
  /\ agentRef' = 0
  /\ wres' = [wres EXCEPT ![t] = "fallback"]
  /\ wpc' = [wpc EXCEPT ![t] = "ret"]
  /\ UNCHANGED <<wUnch, saved, mem, wtmp, wsteps>>

\* the thread hands its result to the event loop; the result of a call
\* abandoned by cancellation is dropped
Deliver(t, r) ==
  /\ wpc' = [wpc EXCEPT ![t] = "off"]
  /\ agOf' = [agOf EXCEPT ![t] = 0]
  /\ IF pc[ChatT(t)] = "running" /\ wake[ChatT(t)] = "none"
        /\ ~mustCancel[ChatT(t)]
     THEN /\ wake' = [wake EXCEPT ![ChatT(t)] = r]
          /\ ready' = Append(ready, ChatT(t))
     ELSE UNCHANGED <<wake, ready>>
  /\ UNCHANGED <<out, tlog>>
  /\ UNCHANGED <<pc, mustCancel, waiters, chat_task, tts_task, ct, tt, pend,
                 inbox, sttbox, nctl, npartial, turnsLeft, nturn, chunks,
                 cur, wtmp, ttsKey, histStart, obs>>

\* run() returns in the worker thread
WReturn(t) ==
  /\ wpc[t] = "ret"
  /\ wres' = [wres EXCEPT ![t] = "none"]
  /\ wsteps' = [wsteps EXCEPT ![t] = 0]
  /\ Deliver(t, wres[t])
  /\ UNCHANGED <<agentRef, saved, mem>>
  /\ UNCHANGED ext

\* steps the run has recorded when it ends: the task, then the action steps
RunEntries(t) == <<<<t, "task">>>> \o [i \in 1..MaxRunSteps |-> <<t, "step">>]

\* the whole run() of a chat call as one step of its thread: agent.run records
\* the task and its steps and returns an answer or raises
WorkerRun(t, r) ==
  /\ wpc[t] = "begin"
  /\ mem' = [mem EXCEPT ![agOf[t]] = @ \o RunEntries(t)]
  /\ Deliver(t, r)
  /\ UNCHANGED <<agentRef, saved, wres, wsteps>>
  /\ UNCHANGED ext

\* ---- frames the receive loop relays or ignores ----

\* a failed send to STT ends the receive loop
MainRecvAudio_Fatal(ok) ==
  /\ AtHead(MainT) /\ pc[MainT] = "recv" /\ inbox # <<>>
  /\ Head(inbox) = "audio"
  /\ ok => sttOpen
  /\ inbox' = Tail(inbox)
  /\ sttOp' = IF ok THEN "audio" ELSE "dropped"
  /\ IF ok THEN /\ ready' = IF Tail(inbox) # <<>> THEN ready ELSE Tail(ready)
                /\ UNCHANGED <<pc, chat_task, tts_task, ct, tt, pend>>
     ELSE CancelInflight("main", "gClose")
  /\ Quiet
  /\ UNCHANGED <<mustCancel, wake, waiters, sttbox, nctl, npartial, turnsLeft,
                 nturn, chunks, cur, agentRef, saved, mem, agOf, wpc, wres,
                 wtmp, wsteps, ttsKey, histStart, obs>>
  /\ UNCHANGED <<regv, sttOpen, registered, cfgv, up, web, hush>>

\* a binary frame: `await stt_ws.send(msg["bytes"])`, which returns (ok) or
\* raises, as it does when the connection is closed; the loop receives again
MainRecvAudio(ok) ==
  /\ AtHead(MainT) /\ pc[MainT] = "recv" /\ inbox # <<>>
  /\ Head(inbox) = "audio"
  /\ ok => sttOpen
  /\ inbox' = Tail(inbox)
  /\ sttOp' = IF ok THEN "audio" ELSE "dropped"
  /\ ready' = IF Tail(inbox) # <<>> THEN ready ELSE Tail(ready)
  /\ Quiet
  /\ UNCHANGED <<pc, mustCancel, wake, waiters, chat_task, tts_task, ct, tt,
                 pend, sttbox, nctl, npartial, turnsLeft, nturn, chunks, cur,
                 agentRef, saved, mem, agOf, wpc, wres, wtmp, wsteps, ttsKey,
                 histStart, obs>>
  /\ UNCHANGED <<regv, sttOpen, registered, cfgv, up, web, hush>>

\* a text frame that json.loads rejects ("junk": `continue`), or whose "type"
\* is neither "cancel" nor "reset" ("other": no branch is taken)
MainRecvIgnored ==
  /\ AtHead(MainT) /\ pc[MainT] = "recv" /\ inbox # <<>>
  /\ Head(inbox) \in {"junk", "other"}
  /\ inbox' = Tail(inbox)
  /\ ready' = IF Tail(inbox) # <<>> THEN ready ELSE Tail(ready)
  /\ Quiet
  /\ UNCHANGED <<pc, mustCancel, wake, waiters, chat_task, tts_task, ct, tt,
                 pend, sttbox, nctl, npartial, turnsLeft, nturn, chunks, cur,
                 agentRef, saved, mem, agOf, wpc, wres, wtmp, wsteps, ttsKey,
                 histStart, obs>>
  /\ UNCHANGED ext

\* a text frame that is JSON but no object (a number, a string, a list,
\* null): `data.get` raises AttributeError, which leaves the loop through
\* `except Exception` and runs `finally`, as a disconnect does
MainRecvScalar ==
  /\ AtHead(MainT) /\ pc[MainT] = "recv" /\ inbox # <<>>
  /\ Head(inbox) = "scalar"
  /\ CancelInflight("main", "gClose")
  /\ inbox' = Tail(inbox)
  /\ Quiet
  /\ UNCHANGED <<mustCancel, wake, waiters, sttbox, nctl, npartial,
                 turnsLeft, nturn, chunks, cur, agentRef, saved, mem, agOf,
                 wpc, wres, wtmp, wsteps, ttsKey, histStart, obs>>
  /\ UNCHANGED ext

\* the STT provider closes the connection
SttDrop ==
  /\ sttOpen /\ ~ClientGone
  /\ sttOpen' = FALSE
  /\ ready' = IF pc[LisT] = "recv" THEN Enq(ready, LisT) ELSE ready
  /\ UNCHANGED <<out, tlog>>
  /\ UNCHANGED <<pc, mustCancel, wake, waiters, chat_task, tts_task, ct, tt,
                 pend, inbox, sttbox, nctl, npartial, turnsLeft, nturn, chunks,
                 cur, agentRef, saved, mem, agOf, wpc, wres, wtmp, wsteps,
                 ttsKey, histStart, obs>>
  /\ UNCHANGED <<regv, registered, sttOp, cfgv, up, web, hush>>

\* `async for raw_msg in stt_ws` ends once the events received before the
\* close are read: ConnectionClosed is logged and the listener returns
LisClosed ==
  /\ AtHead(LisT) /\ pc[LisT] = "recv" /\ sttbox = <<>> /\ ~sttOpen
  /\ ~mustCancel[LisT]
  /\ pc' = [pc EXCEPT ![LisT] = "done"]
  /\ waiters' = [waiters EXCEPT ![LisT] = <<>>]
  /\ ready' = Tail(ready) \o waiters[LisT]
  /\ Quiet
  /\ UNCHANGED <<mustCancel, wake, chat_task, tts_task, ct, tt, pend, inbox,
                 sttbox, nctl, npartial, turnsLeft, nturn, chunks, cur,
                 agentRef, saved, mem, agOf, wpc, wres, wtmp, wsteps, ttsKey,
                 histStart, obs>>
  /\ UNCHANGED ext

\* ---- session_ws: connecting to STT, and the end of the session ----

\* the token is fetched and STT connected: `ready` is sent, the listener
\* started, and the receive loop entered
MainConnected ==
  /\ pc[MainT] = "connecting"
  /\ sttOpen' = TRUE
  /\ out' = <<Frame("ready", 0)>>
  /\ pc' = [pc EXCEPT ![MainT] = "recv", ![LisT] = "recv"]
  /\ ready' = IF inbox # <<>> THEN Enq(ready, MainT) ELSE ready
  /\ UNCHANGED <<tlog, mustCancel, wake, waiters, chat_task, tts_task, ct, tt,
                 pend, inbox, sttbox, nctl, npartial, turnsLeft, nturn, chunks,
                 cur, agentRef, saved, mem, agOf, wpc, wres, wtmp, wsteps,
                 ttsKey, histStart, obs>>
  /\ UNCHANGED <<regv, registered, sttOp, cfgv, up, web, hush>>

\* create_token or websockets.connect raised: `error` is sent, the client's
\* socket closed, and session_ws returns
MainConnectFailed ==
  /\ pc[MainT] = "connecting"
  /\ out' = <<Frame("error", 0)>>
  /\ pc' = [pc EXCEPT ![MainT] = "refused"]
  /\ UNCHANGED <<tlog, mustCancel, wake, waiters, ready, chat_task, tts_task,
                 ct, tt, pend, inbox, sttbox, nctl, npartial, turnsLeft, nturn,
                 chunks, cur, agentRef, saved, mem, agOf, wpc, wres, wtmp,
                 wsteps, ttsKey, histStart, obs>>
  /\ UNCHANGED ext

\* ws.receive() returns websocket.disconnect, or raises: `finally` snapshots
\* and clears the handles under the lock and starts its gather
MainDisconnect ==
  /\ AtHead(MainT) /\ pc[MainT] = "recv" /\ inbox # <<>>
  /\ Head(inbox) = "disconnect"
  /\ CancelInflight("main", "gClose")
  /\ inbox' = Tail(inbox)
  /\ Quiet
  /\ UNCHANGED <<mustCancel, wake, waiters, sttbox, nctl, npartial,
                 turnsLeft, nturn, chunks, cur, agentRef, saved, mem, agOf,
                 wpc, wres, wtmp, wsteps, ttsKey, histStart, obs>>
  /\ UNCHANGED ext

\* CancelledError is delivered at the listener's await: the listener ends
LisAbort ==
  /\ AtHead(LisT) /\ mustCancel[LisT] /\ pc[LisT] \in {"recv", "gTurn"}
  /\ pc' = [pc EXCEPT ![LisT] = "done"]
  /\ mustCancel' = [mustCancel EXCEPT ![LisT] = FALSE]
  /\ waiters' = [waiters EXCEPT ![LisT] = <<>>]
  /\ ready' = Tail(ready) \o waiters[LisT]
  /\ Quiet
  /\ UNCHANGED <<wake, chat_task, tts_task, ct, tt, pend, inbox, sttbox, nctl,
                 npartial, turnsLeft, nturn, chunks, cur, agentRef, saved, mem,
                 agOf, wpc, wres, wtmp, wsteps, ttsKey, histStart, obs>>
  /\ UNCHANGED ext

\* `finally` after its gather: `await stt_ws.close()`
MainCloseStt ==
  /\ AtHead(MainT) /\ pc[MainT] = "gClose"
  /\ pc' = [pc EXCEPT ![MainT] = "closing"]
  /\ sttOpen' = FALSE
  /\ ready' = Tail(ready)
  /\ Quiet
  /\ UNCHANGED <<mustCancel, wake, waiters, chat_task, tts_task, ct, tt, pend,
                 inbox, sttbox, nctl, npartial, turnsLeft, nturn, chunks, cur,
                 agentRef, saved, mem, agOf, wpc, wres, wtmp, wsteps, ttsKey,
                 histStart, obs>>
  /\ UNCHANGED <<regv, registered, sttOp, cfgv, up, web, hush>>

\* the close of the STT connection completes, or fails
SttCloseDone ==
  /\ pc[MainT] = "closing" /\ ~InSeq(MainT, ready)
  /\ ready' = Append(ready, MainT)
  /\ UNCHANGED <<out, tlog>>
  /\ UNCHANGED <<pc, mustCancel, wake, waiters, chat_task, tts_task, ct, tt,
                 pend, inbox, sttbox, nctl, npartial, turnsLeft, nturn, chunks,
                 cur, agentRef, saved, mem, agOf, wpc, wres, wtmp, wsteps,
                 ttsKey, histStart, obs>>
  /\ UNCHANGED ext

\* `finally`, last statement: agent_manager.remove(sid); session_ws returns
MainRemove ==
  /\ AtHead(MainT) /\ pc[MainT] = "closing"
  /\ registered' = FALSE
  /\ pc' = [pc EXCEPT ![MainT] = "done"]
  /\ ready' = Tail(ready)
  /\ Quiet
  /\ UNCHANGED <<mustCancel, wake, waiters, chat_task, tts_task, ct, tt, pend,
                 inbox, sttbox, nctl, npartial, turnsLeft, nturn, chunks, cur,
                 agentRef, saved, mem, agOf, wpc, wres, wtmp, wsteps, ttsKey,
                 histStart, obs>>
  /\ UNCHANGED <<regv, sttOpen, sttOp, cfgv, up, web, hush>>

\* ---- VoiceAgentManager: the registry of sessions ----

Ids == 1..NIds
Threads == 1..NThreads
NoEntry == [obj |-> 0, exp |-> 0]
NoRet == [op |-> "none", id |-> 0, val |-> 0]

\* a manager that uses the TTLCache whatever ttl_seconds is
Timed_Always == TRUE

\* __init__: a TTLCache when ttl_seconds > 0, a plain dict otherwise
Timed == ttl > 0

\* TTLCache: an item is expired once the clock is no longer before its deadline
Expired(e) == Timed /\ e.obj # 0 /\ ~(now < e.exp)

\* the ids a store holds
Stored(s) == {i \in Ids : s[i].obj # 0}

\* _sessions.get(session_id): the agent stored and not expired, 0 for None
CacheGet(i) == IF store[i].obj # 0 /\ ~Expired(store[i]) THEN store[i].obj ELSE 0

\* TTLCache.expire(): every expired item is dropped
Expire(s) == [i \in Ids |-> IF Expired(s[i]) THEN NoEntry ELSE s[i]]

\* the deadline a set gives an item
Deadline == IF Timed THEN now + ttl ELSE 0

\* a set that leaves the deadline of an item already there as it is
CacheSet_KeepDeadline(i, o) ==
  LET s1 == IF Timed THEN Expire(store) ELSE store
      o1 == SelectSeq(order, LAMBDA j : s1[j].obj # 0)
      full == Timed /\ s1[i].obj = 0 /\ Cardinality(Stored(s1)) >= MaxSize
      s2 == IF full THEN [s1 EXCEPT ![Head(o1)] = NoEntry] ELSE s1
      o2 == IF full THEN Tail(o1) ELSE o1
  IN [store |-> [s2 EXCEPT ![i] = [obj |-> o,
                                   exp |-> IF store[i].obj # 0 THEN store[i].exp
                                           ELSE Deadline]],
      order |-> IF s2[i].obj = 0 THEN Append(o2, i) ELSE o2]

\* _sessions[session_id] = agent.  TTLCache: expired items are dropped, a new
\* key of a full cache evicts the least recently set item, and the item gets
\* a new deadline and becomes the most recently set one
CacheSet(i, o) ==
  LET s1 == IF Timed THEN Expire(store) ELSE store
      o1 == SelectSeq(order, LAMBDA j : s1[j].obj # 0)
      full == Timed /\ s1[i].obj = 0 /\ Cardinality(Stored(s1)) >= MaxSize
      s2 == IF full THEN [s1 EXCEPT ![Head(o1)] = NoEntry] ELSE s1
      o2 == IF full THEN Tail(o1) ELSE o1
  IN [store |-> [s2 EXCEPT ![i] = [obj |-> o, exp |-> Deadline]],
      order |-> IF Timed \/ s2[i].obj = 0
                THEN Append(SelectSeq(o2, LAMBDA j : j # i), i)
                ELSE o2]

\* a pop that empties the registry
CachePop_All(i) == [store |-> [j \in Ids |-> NoEntry], order |-> <<>>]

\* _sessions.pop(session_id, None): an item that is there and not expired is
\* deleted, anything else is left as it is
CachePop(i) ==
  IF CacheGet(i) # 0
  THEN [store |-> [store EXCEPT ![i] = NoEntry],
        order |-> SelectSeq(order, LAMBDA j : j # i)]
  ELSE [store |-> store, order |-> order]

\* a manager whose operations take no lock
CanEnter_NoLock(th) == TRUE

\* `with self._lock`: the lock is free
CanEnter(th) == lock = 0

RegStart(ttls) ==
  /\ ttl \in ttls
  /\ now = 0
  /\ store = [i \in Ids |-> NoEntry]
  /\ order = <<>>
  /\ lock = 0
  /\ rpc = [th \in Threads |-> "idle"]
  /\ rop = [th \in Threads |-> "none"]
  /\ rid = [th \in Threads |-> 0]
  /\ ragent = [th \in Threads |-> 0]
  /\ nops = 0
  /\ nextObj = 0
  /\ closed = {}
  /\ ret = NoRet
  /\ given = [i \in Ids |-> NoEntry]
  /\ gone = [i \in Ids |-> 0]

\* the `with` block is left and the call returns
Leave(th) ==
  /\ lock' = 0
  /\ rpc' = [rpc EXCEPT ![th] = "idle"]
  /\ rop' = [rop EXCEPT ![th] = "none"]
  /\ rid' = [rid EXCEPT ![th] = 0]

\* a thread calls get_or_create(i), remove(i) or active_sessions
RegCall(th, op, i) ==
  /\ rpc[th] = "idle" /\ nops < MaxOps
  /\ op = "active" => i = 0
  /\ nops' = nops + 1
  /\ rpc' = [rpc EXCEPT ![th] = "wait"]
  /\ rop' = [rop EXCEPT ![th] = op]
  /\ rid' = [rid EXCEPT ![th] = i]
  /\ UNCHANGED <<ttl, now, store, order, lock, ragent, nextObj, closed, ret,
                 given, gone>>
  /\ UNCHANGED <<sess, endv, cfgv, up, web, hush>>

\* `with self._lock:` is entered
RegEnter(th) ==
  /\ rpc[th] = "wait" /\ CanEnter(th)
  /\ lock' = th
  /\ rpc' = [rpc EXCEPT ![th] = "in"]
  /\ UNCHANGED <<ttl, now, store, order, rop, rid, ragent, nops, nextObj,
                 closed, ret, given, gone>>
  /\ UNCHANGED <<sess, endv, cfgv, up, web, hush>>

\* get_or_create: `agent = self._sessions.get(session_id)`
GocLookup(th) ==
  /\ rpc[th] = "in" /\ rop[th] = "get"
  /\ ragent' = [ragent EXCEPT ![th] = CacheGet(rid[th])]
  /\ rpc' = [rpc EXCEPT ![th] = "got"]
  /\ UNCHANGED <<ttl, now, store, order, lock, rop, rid, nops, nextObj,
                 closed, ret, given, gone>>
  /\ UNCHANGED <<sess, endv, cfgv, up, web, hush>>

\* get_or_create: the agent found is set again, or a VoiceAgent is
\* constructed and set; the lock is released and the agent returned
GocReturn(th) ==
  /\ rpc[th] = "got"
  /\ LET o == IF ragent[th] # 0 THEN ragent[th] ELSE nextObj + 1
         c == CacheSet(rid[th], o)
     IN /\ store' = c.store
        /\ order' = c.order
        /\ nextObj' = IF ragent[th] # 0 THEN nextObj ELSE nextObj + 1
        /\ ret' = [op |-> "get", id |-> rid[th], val |-> o]
        /\ given' = [given EXCEPT ![rid[th]] = [obj |-> o, exp |-> Deadline]]
  /\ Leave(th)
  /\ ragent' = [ragent EXCEPT ![th] = 0]
  /\ UNCHANGED <<ttl, now, nops, closed, gone>>
  /\ UNCHANGED <<sess, endv, cfgv, up, web, hush>>

\* remove: `self._sessions.pop(session_id, None)` under the lock
RegRemove(th) ==
  /\ rpc[th] = "in" /\ rop[th] = "remove"
  /\ store' = CachePop(rid[th]).store
  /\ order' = CachePop(rid[th]).order
  /\ ret' = [op |-> "remove", id |-> rid[th], val |-> CacheGet(rid[th])]
  /\ given' = [given EXCEPT ![rid[th]] = NoEntry]
  /\ gone' = [gone EXCEPT ![rid[th]] =
                IF CacheGet(rid[th]) # 0 THEN CacheGet(rid[th]) ELSE @]
  /\ Leave(th)
  /\ UNCHANGED <<ttl, now, ragent, nops, nextObj, closed>>
  /\ UNCHANGED <<sess, endv, cfgv, up, web, hush>>

\* active_sessions: expire() on a TTLCache, then len() under the lock
RegActive(th) ==
  /\ rpc[th] = "in" /\ rop[th] = "active"
  /\ store' = IF Timed THEN Expire(store) ELSE store
  /\ order' = SelectSeq(order, LAMBDA j : store'[j].obj # 0)
  /\ ret' = [op |-> "active", id |-> 0, val |-> Cardinality(Stored(store'))]
  /\ Leave(th)
  /\ UNCHANGED <<ttl, now, ragent, nops, nextObj, closed, given, gone>>
  /\ UNCHANGED <<sess, endv, cfgv, up, web, hush>>

\* time passes
Tick ==
  /\ now < MaxTime
  /\ now' = now + 1
  /\ UNCHANGED <<ttl, store, order, lock, rpc, rop, rid, ragent, nops,
                 nextObj, closed, ret, given, gone>>
  /\ UNCHANGED <<sess, endv, cfgv, up, web, hush>>

\* ---- the specifications ----

FormattedTurn == [type |-> "Turn", flag |-> TRUE]

\* ---- the constructors of VoiceAgentManager and VoiceAgent ----
\* an argument or variable: None or unset, the empty string, a key
KeyVals == {"none", "", "k"}
StepVals == 0..1
Keys == [aai : KeyVals, rime : KeyVals]
NoCall == [fn |-> "none", aai |-> "none", rime |-> "none", steps |-> 1]

Truthy_EmptyOk(v) == v # "none"

\* the truth value of a string or None
Truthy(v) == v \notin {"none", ""}

\* `a or b`
OrElse(a, b) == IF Truthy(a) THEN a ELSE b

\* load_dotenv(): a variable of the file is set unless the environment has it
LoadDotenv(e) ==
  [v \in {"aai", "rime"} |-> IF e[v] = "none" THEN dotenv[v] ELSE e[v]]

\* the ValueError __init__ raises with environment e, "" if it raises none;
\* only VoiceAgent checks max_steps
InitError(fn, a, r, steps, e) ==
  IF ~Truthy(OrElse(a, e.aai)) THEN "assemblyai_api_key"
  ELSE IF ~Truthy(OrElse(r, e.rime)) THEN "rime_api_key"
  ELSE IF fn # "VoiceAgentManager" /\ steps < 1 THEN "max_steps"
  ELSE ""

\* one call of a constructor; fn "get_or_create" is the VoiceAgent(...) call
\* of VoiceAgentManager.get_or_create
Construct(fn, a, r, steps) ==
  /\ ncalls < MaxCalls
  /\ ncalls' = ncalls + 1
  /\ env' = LoadDotenv(env)
  /\ call' = [fn |-> fn, aai |-> a, rime |-> r, steps |-> steps]
  /\ raised' = InitError(fn, a, r, steps, env')
  /\ LET obj == [aai |-> OrElse(a, env'.aai), rime |-> OrElse(r, env'.rime),
                 steps |-> steps, by |-> fn]
     IN /\ mgrs' = IF raised' = "" /\ fn = "VoiceAgentManager"
                   THEN mgrs \cup {obj} ELSE mgrs
        /\ agents' = IF raised' = "" /\ fn # "VoiceAgentManager"
                     THEN agents \cup {obj} ELSE agents
  /\ UNCHANGED <<sess, regv, endv, dotenv, greeting, resp, up, web, hush>>

\* get_or_create of a manager that exists constructs the session's agent
\* from the keys the manager resolved
ManagerMakes(m) ==
  /\ m \in mgrs
  /\ Construct("get_or_create", m.aai, m.rime, m.steps)

\* a VoiceResponse: its text, its audio and whether it has an error; raised
\* says that greet() raised instead of returning it
NoResp == [raised |-> FALSE, text |-> "none", audio |-> "none", error |-> FALSE]

GreetResult_Raises(g, r) ==
  [raised |-> g # "" /\ r = "exc", text |-> g,
   audio |-> IF g # "" /\ r = "ok" THEN "wav" ELSE "none", error |-> FALSE]

\* VoiceAgent.greet() when tts.synthesize returns (r = "ok") or raises
GreetResult(g, r) ==
  [raised |-> FALSE, text |-> g,
   audio |-> IF g # "" /\ r = "ok" THEN "wav" ELSE "none",
   error |-> g # "" /\ r = "exc"]

\* a call of VoiceAgent.greet()
AgentGreet(r) ==
  /\ resp' = GreetResult(greeting, r)
  /\ UNCHANGED <<sess, regv, endv, up, web, hush, env, dotenv, mgrs, agents, call, raised,
                 ncalls, greeting>>

\* one manager constructed with both keys, nothing else constructed
Constructed ==
  /\ env = [aai |-> "k", rime |-> "k"]
  /\ dotenv = [aai |-> "none", rime |-> "none"]
  /\ mgrs = {[aai |-> "k", rime |-> "k", steps |-> 1, by |-> "VoiceAgentManager"]}
  /\ agents = {}
  /\ call = NoCall
  /\ raised = ""
  /\ ncalls = 0
  /\ resp = NoResp

\* a manager whose agents have no greeting
Configured == Constructed /\ greeting = ""

\* nothing constructed yet, any environment and .env file
Unconfigured ==
  /\ env \in Keys
  /\ dotenv \in Keys
  /\ mgrs = {}
  /\ agents = {}
  /\ call = NoCall
  /\ raised = ""
  /\ ncalls = 0
  /\ greeting = "" /\ resp = NoResp

\* the listener's handling of formatted turns, and the chat tasks
SessionNext ==
  \/ LisRecvTurn
  \/ LisSpawnChat
  \/ \E o \in Owners : ChildStart(o)
  \/ \E o \in Owners, k \in 1..3 : ChildResume(o, k)
  \/ \E o \in Owners : GatherCallback(o)
  \/ \E t \in Turns : ChatStart(t)
  \/ \E t \in Turns : ChatEnsure(t)
  \/ \E t \in Turns : ChatResult(t)
  \/ \E t \in Turns : ChatFailed(t)
  \/ \E t \in Turns : ChatAbort(t)
  \/ \E t \in Turns : BuildDone(t)

\* the client's control frames and the receive loop
ClientNext ==
  \/ \E m \in {"cancel", "reset"} : ClientSend(m)
  \/ MainRecvCmd
  \/ \E ok \in BOOLEAN : MainClearStt(ok)
  \/ MainAfterCancel
  \/ MainAfterReset

\* the TTS relay and its upstream
TtsNext ==
  \/ \E t \in Turns : TtsStart(t)
  \/ \E t \in Turns : TtsConnected(t)
  \/ \E t \in Turns : TtsRelay(t)
  \/ \E t \in Turns : TtsDone(t)
  \/ \E t \in Turns : TtsFailed(t)
  \/ \E t \in Turns : TtsAbort(t)
  \/ \E t \in Turns, ev \in {"ok", "fail", "chunk", "eof", "err", "closed"} :
        TtsUpstream(t, ev)

\* a chat call's thread as one step
WorkerNext ==
  \E t \in Turns, r \in {"ok", "empty", "exc"} : WorkerRun(t, r)

\* formatted turns and the TTS relay; the client sends audio only
Init == Start(MaxTurns) /\ RegStart({TtlSeconds}) /\ Configured

Next ==
  \/ SessionNext
  \/ TtsNext
  \/ WorkerNext
  \/ SttSend(FormattedTurn)

Spec == Init /\ [][Next]_vars

\* formatted turns, control frames and the TTS relay
InitCtl == Start(CtlTurns) /\ RegStart({TtlSeconds}) /\ Configured

NextCtl ==
  \/ SessionNext
  \/ ClientNext
  \/ TtsNext
  \/ WorkerNext
  \/ SttSend(FormattedTurn)

SpecCtl == InitCtl /\ [][NextCtl]_vars

\* the steps of the event loop: it runs the callback at the head of its queue
LoopNext ==
  \/ SessionNext
  \/ MainRecvCmd
  \/ \E ok \in BOOLEAN : MainClearStt(ok)
  \/ MainAfterCancel
  \/ MainAfterReset
  \/ \E t \in Turns : TtsStart(t) \/ TtsConnected(t) \/ TtsRelay(t)
                       \/ TtsDone(t) \/ TtsFailed(t) \/ TtsAbort(t)

\* the event loop keeps running its ready callbacks, and the close of a TTS
\* upstream connection completes (websockets bounds it by close_timeout)
SpecCtlFair ==
  /\ SpecCtl
  /\ WF_vars(LoopNext)
  /\ WF_vars(\E t \in Turns : TtsUpstream(t, "closed"))

\* every kind of STT event and the TTS relay; the client sends audio only
InitStt == Start(SttTurns) /\ RegStart({TtlSeconds}) /\ Configured

NextStt ==
  \/ SessionNext
  \/ TtsNext
  \/ WorkerNext
  \/ \E msg \in SttMsgs : SttSend(msg)
  \/ LisRecvPartial

SpecStt == InitStt /\ [][NextStt]_vars

\* formatted turns and control frames without a TTS key; the thread of a chat
\* call runs statement by statement, concurrently with the event loop
InitAgent == Start(AgentTurns) /\ ~ttsKey /\ RegStart({TtlSeconds}) /\ Configured

NextAgent ==
  \/ SessionNext
  \/ ClientNext
  \/ SttSend(FormattedTurn)
  \/ \E t \in Turns : WRunTask(t)
  \/ \E t \in Turns : WRunStep(t)
  \/ \E t \in Turns, r \in {"ok", "exc"} : WRunEnd(t, r)
  \/ \E t \in Turns : WRunFault(t)
  \/ \E t \in Turns : WInvRead(t)
  \/ \E t \in Turns : WInvWrite(t)
  \/ \E t \in Turns : WInvClear(t)
  \/ \E t \in Turns : WReturn(t)

SpecAgent == InitAgent /\ [][NextAgent]_vars

\* a session from its connection to STT to its end: formatted turns, control
\* frames, the TTS relay, and the client's disconnect
InitEnd == Boot(EndTurns) /\ RegStart({TtlSeconds}) /\ Configured

NextEnd ==
  \/ SessionNext
  \/ ClientNext
  \/ TtsNext
  \/ WorkerNext
  \/ SttSend(FormattedTurn)
  \/ MainConnected
  \/ MainConnectFailed
  \/ ClientSend("disconnect")
  \/ MainDisconnect
  \/ LisAbort
  \/ MainCloseStt
  \/ SttCloseDone
  \/ MainRemove

SpecEnd == InitEnd /\ [][NextEnd]_vars

\* the registry alone, called by concurrent threads while time passes
InitReg == Start(0) /\ ~ttsKey /\ RegStart({0, TtlSeconds}) /\ Configured

NextReg ==
  \/ \E th \in Threads, op \in {"get", "remove"}, i \in Ids : RegCall(th, op, i)
  \/ \E th \in Threads : RegCall(th, "active", 0)
  \/ \E th \in Threads : RegEnter(th)
  \/ \E th \in Threads : GocLookup(th)
  \/ \E th \in Threads : GocReturn(th)
  \/ \E th \in Threads : RegRemove(th)
  \/ \E th \in Threads : RegActive(th)
  \/ Tick

SpecReg == InitReg /\ [][NextReg]_vars

\* the constructors, called with any arguments in any environment
InitCfg == Start(0) /\ ~ttsKey /\ RegStart({TtlSeconds}) /\ Unconfigured

NextCfg ==
  \/ \E fn \in {"VoiceAgentManager", "VoiceAgent"}, a, r \in KeyVals,
        steps \in StepVals : Construct(fn, a, r, steps)
  \/ \E m \in mgrs : ManagerMakes(m)

SpecCfg == InitCfg /\ [][NextCfg]_vars

\* a session without a TTS key whose client sends mic audio and text frames
\* that are no commands, and whose STT connection may drop
InitNoise ==
  Start(NoiseTurns) /\ ~ttsKey /\ RegStart({TtlSeconds}) /\ Configured

NextNoise ==
  \/ SessionNext
  \/ WorkerNext
  \/ SttSend(FormattedTurn)
  \/ \E m \in {"audio", "junk", "other", "scalar"} : ClientSend(m)
  \/ \E ok \in BOOLEAN : MainRecvAudio(ok)
  \/ MainRecvIgnored
  \/ MainRecvScalar
  \/ LisAbort
  \/ MainCloseStt
  \/ SttCloseDone
  \/ MainRemove
  \/ SttDrop
  \/ LisClosed

SpecNoise == InitNoise /\ [][NextNoise]_vars

\* formatted turns and the TTS relay, with answers whose cleaned text has
\* no word (a bare URL, a code block), one word, or more
InitSynth == Start(SynthTurns) /\ ttsKey /\ RegStart({TtlSeconds}) /\ Configured

NextSynth ==
  \/ SessionNext
  \/ TtsNext
  \/ WorkerNext
  \/ SttSend(FormattedTurn)
  \/ \E t \in Turns, n \in 0..MaxWords : TtsSendText(t, n)

SpecSynth == InitSynth /\ [][NextSynth]_vars

\* formatted turns and the TTS relay, where the event loop keeps running its
\* ready callbacks, the thread of every agent call (and of every engine
\* build) returns or raises, and the TTS provider answers every await of a
\* relay (connect: open_timeout=10; the stream ends or breaks)
InitLive == Start(LiveTurns) /\ RegStart({TtlSeconds}) /\ Configured

SpecLive ==
  /\ InitLive /\ [][Next]_vars
  /\ WF_vars(LoopNext)
  /\ WF_vars(WorkerNext)
  /\ \A t \in Turns :
        WF_vars(\E ev \in {"ok", "fail", "chunk", "eof", "err", "closed"} :
                  TtsUpstream(t, ev))

\* a WebTool is constructed and its fetch is called once
InitFetch == Start(0) /\ ~ttsKey /\ RegStart({TtlSeconds}) /\ Configured

NextFetch ==
  \/ \E a \in RetryArgs : WebToolInit(a)
  \/ FetchCall
  \/ \E o \in Outcomes : FetchAttempt(o)

SpecFetch == InitFetch /\ [][NextFetch]_vars

\* formatted turns and the TTS relay, with Turn events that carry no text
InitBlank == Start(NoiseTurns) /\ RegStart({TtlSeconds}) /\ Configured

NextBlank ==
  \/ SessionNext
  \/ TtsNext
  \/ WorkerNext
  \/ SttSend(FormattedTurn)
  \/ \E msg \in BlankEvents : SttSend(msg)
  \/ LisRecvBlank

SpecBlank == InitBlank /\ [][NextBlank]_vars

\* a session whose agent has a greeting, and calls of greet()
InitGreet ==
  /\ greeting = "hi"
  /\ Greeted(GreetTurns) /\ RegStart({TtlSeconds}) /\ Constructed

NextGreet ==
  \/ SessionNext
  \/ TtsNext
  \/ WorkerNext
  \/ SttSend(FormattedTurn)
  \/ \E r \in {"ok", "exc"} : AgentGreet(r)

SpecGreet == InitGreet /\ [][NextGreet]_vars

\* ---- claims ----

IsPrefix(a, b) == Len(a) <= Len(b) /\ \A i \in 1..Len(a) : a[i] = b[i]
HasAudioOf(u) == \E i \in 1..Len(out) : out[i] = Frame("audio", u)

\* C1: while the chat task of a turn is in flight, no chat task and no tts
\* task of an earlier turn is in flight
C1_NoEarlierWork ==
  \A t \in Turns : \A u \in Turns :
    (u < t /\ Live(ChatT(t))) => (~Live(ChatT(u)) /\ ~Live(TtsT(u)))

\* C2: a synthesis that was streaming when the listener read a formatted Turn
\* has been cancelled by the time the chat task of that turn exists, and
\* relays no audio frame once the `turn` frame of that turn has been sent
C2_BargeInStopsSpeech ==
  \A t \in Turns : \A u \in spk[t] :
    /\ pc[ChatT(t)] # "none" =>
         (pc[TtsT(u)] \in {"closing", "done"} \/ mustCancel[TtsT(u)])
    /\ (tlog[t] # <<>> \/ pc[ChatT(t)] \in {"building", "running"}) =>
         ~HasAudioOf(u)

\* C3: a turn whose chat call had no answer when a cancel frame was read never
\* gets a `chat` or `tts_done` frame, and its chat task has ended when the
\* `cancelled` frame is sent
C3_CancelWhileAnswering ==
  \A t \in cancelAns :
    /\ \A i \in 1..Len(out) : out[i] \notin {Frame("chat", t), Frame("tts_done", t)}
    /\ out = <<Frame("cancelled", 0)>> => pc[ChatT(t)] = "done"

C3_Witness ==
  \E t \in cancelAns :
    /\ out = <<Frame("cancelled", 0)>>
    /\ tlog[t] = <<"turn", "thinking">>
    /\ t \in cancelledRun

\* the tasks, the cancellations pending and the agent's history
SessionState == <<[x \in WorkTasks |-> pc[x]], mustCancel, cur, agentRef, saved, mem>>

\* a step of the receive loop's cancel handling
MainCancelStep ==
  \/ MainAfterCancel
  \/ \E ok \in BOOLEAN : MainClearStt(ok)
  \/ ChildStart("main")
  \/ \E k \in 1..3 : ChildResume("main", k)
  \/ GatherCallback("main")

\* C4: when a cancel frame is read while nothing is in flight, the steps that
\* handle it leave the tasks and the agent unchanged, cancel nothing, and send
\* the `cancelled` frame and nothing else, after which the loop receives again
C4_CancelWhenIdle ==
  [][ (idleCancel /\ MainCancelStep) =>
        /\ SessionState' = SessionState
        /\ IF pc[MainT] = "clearing" /\ AtHead(MainT)
           THEN out' = <<Frame("cancelled", 0)>> /\ pc'[MainT] = "recv"
           ELSE out' = <<>> ]_vars

C4_Witness ==
  /\ idleCancel /\ out = <<Frame("cancelled", 0)>>
  /\ chat_task = NoTask /\ pc[ChatT(1)] = "done"

\* the frames of a turn that got its answer and its speech
TurnPattern(k) ==
  <<"turn", "thinking", "chat">> \o [i \in 1..k |-> "audio"] \o <<"tts_done">>

\* the frames of a turn whose chat call or synthesis failed
FailedPattern(k) ==
  <<"turn", "thinking", "chat">> \o [i \in 1..k |-> "audio"] \o <<"error">>

\* the listener reads the STT event msg
Hears(msg) == sttbox # <<>> /\ Head(sttbox) = msg /\ sttbox' = Tail(sttbox)

\* C5: the frames of a turn come in the order turn, thinking, chat, audio
\* frames, tts_done (an `error` frame ends a turn whose chat call or synthesis
\* failed), and a Transcript event produces one transcript frame and no frame
\* of a turn
C5_FrameOrder ==
  /\ [](\A t \in Turns :
          \/ \E k \in 0..MaxChunks : IsPrefix(tlog[t], TurnPattern(k))
          \/ \E k \in 0..MaxChunks : tlog[t] = FailedPattern(k)
          \/ tlog[t] = <<"turn", "thinking", "error">>)
  /\ [][ \A b \in BOOLEAN :
           Hears([type |-> "Transcript", flag |-> b]) =>
             out' = <<TranscriptFrame(b)>> /\ tlog' = tlog ]_vars

C5_Witness ==
  \E t \in Turns :
    /\ heard.type = "Transcript"
    /\ tlog[t] = TurnPattern(MaxChunks)
    /\ pc[TtsT(t)] = "done"

C7_ResetStopsAll ==
  /\ [](out = <<Frame("reset", 0)>> =>
          \A t \in Turns :
            t <= resetSnap => (~Live(ChatT(t)) /\ ~Live(TtsT(t))))
  /\ [][ \A t \in Turns :
           (fresh /\ pc[ChatT(t)] # "running" /\ pc'[ChatT(t)] = "running") =>
             histStart'[t] = SomeSaved(<<>>) ]_vars

\* the entries an agent run of turn t recorded
EntriesOf(t, steps) == SelectSeq(steps, LAMBDA e : e[1] = t)

\* C8: the history an agent run starts from holds no entry of a turn whose
\* chat call was cancelled during its agent run
C8_CancelRestoresHistory ==
  \A t \in cancelledRun : \A u \in Turns :
    pc[ChatT(u)] = "running" => EntriesOf(t, histStart[u].steps) = <<>>

\* C9: when the agent run ended with UnboundLocalError the chat call returns
\* the fallback answer with the engine invalidated, and the history the next
\* chat call starts from begins with the history this run started from
C9_FaultKeepsHistory ==
  \A t \in Turns :
    (pc[ChatT(t)] = "running" /\ wake[ChatT(t)] = "fallback") =>
      /\ agentRef = 0
      /\ IsPrefix(histStart[t].steps, EffHist)

\* the thread of turn t's chat call takes a step
WorkerStep(t) == wpc'[t] # wpc[t] \/ wsteps'[t] # wsteps[t]

\* C10: a thread whose chat call was cancelled changes nothing of the history
\* the next chat call starts from
C10_AbandonedWorkerHarmless ==
  [][ \A t \in Turns :
        (pc[ChatT(t)] = "done" /\ WorkerStep(t)) => EffHist' = EffHist ]_vars

\* thread th's get_or_create returns in this step
GocReturns(th) == rpc[th] = "got" /\ rpc'[th] = "idle"

\* the session get_or_create last returned for id i has been neither removed
\* nor left unused for the time to live
GivenLive(i) == given[i].obj # 0 /\ (Timed => now < given[i].exp)

\* C11: get_or_create returns the object it returned before for the same id
\* when no remove or expiry came between, an object other than the one of any
\* other live id, and after a remove an object other than the one removed
C11_SessionIdentity ==
  [][ \A th \in Threads : GocReturns(th) =>
        LET i == rid[th]
            o == ret'.val
        IN /\ GivenLive(i) => o = given[i].obj
           /\ \A j \in Ids \ {i} : GivenLive(j) => o # given[j].obj
           /\ (given[i].obj = 0 /\ gone[i] # 0) => o # gone[i] ]_vars

\* thread th is inside `with self._lock`
Inside(th) == rpc[th] \in {"in", "got"}

\* C12: whatever the interleaving of the callers, get_or_create constructs an
\* object only for an id that has no live object, returns the stored object
\* otherwise, leaves the object it returns stored under the id, and no other
\* caller is inside the registry meanwhile
C12_OneObjectPerId ==
  [][ \A th \in Threads : GocReturns(th) =>
        LET i == rid[th]
        IN /\ nextObj' # nextObj => CacheGet(i) = 0
           /\ nextObj' = nextObj => ret'.val = store[i].obj
           /\ store'[i].obj = ret'.val
           /\ \A o \in Threads \ {th} : ~Inside(o) ]_vars

\* one thread is about to construct the object of an unknown id while another
\* thread's get_or_create for the same id waits for the lock
C12_Witness ==
  \E a, b \in Threads :
    /\ a # b
    /\ rpc[a] = "got" /\ ragent[a] = 0
    /\ rpc[b] = "wait" /\ rop[b] = "get" /\ rid[b] = rid[a]

\* thread th's active_sessions returns in this step
ActiveReturns(th) == rpc[th] = "in" /\ rop[th] = "active" /\ rpc'[th] = "idle"

\* the ids whose session was last accessed less than, and at most, the time
\* to live ago and has not been removed
LiveBefore == {i \in Ids : given[i].obj # 0 /\ now < given[i].exp}
LiveUpTo == {i \in Ids : given[i].obj # 0 /\ now <= given[i].exp}

\* C13: with a positive time to live active_sessions counts every session
\* last accessed less than the time to live ago and not removed, and no
\* session removed or last accessed more than the time to live ago
C13_ActiveCount ==
  [][ \A th \in Threads : (Timed /\ ActiveReturns(th)) =>
        /\ ret'.val >= Cardinality(LiveBefore)
        /\ ret'.val <= Cardinality(LiveUpTo) ]_vars

\* C14: get_or_create gives the session it returns the full time to live
\* from now on, also when the session existed; active_sessions drops only
\* expired sessions and leaves every other session, deadline included, as it
\* was, and so does the passing of time
C14_LastAccess ==
  [][ /\ \A th \in Threads : (Timed /\ GocReturns(th)) =>
           store'[rid[th]] = [obj |-> ret'.val, exp |-> now + ttl]
      /\ \A th \in Threads : ActiveReturns(th) =>
           \A i \in Ids : store'[i] = IF Expired(store[i]) THEN NoEntry
                                      ELSE store[i]
      /\ now' # now => store' = store ]_vars

\* active_sessions has counted a session and left it with a deadline that
\* the get_or_create which has just found the session is about to extend
C14_Witness ==
  /\ Timed /\ ret.op = "active" /\ ret.val = 1
  /\ \E th \in Threads :
       /\ rpc[th] = "got" /\ ragent[th] = 1
       /\ store[rid[th]].obj = 1 /\ store[rid[th]].exp < now + ttl

\* C15: with ttl_seconds <= 0 a session stays in the registry, whatever time
\* passes and however many sessions there are, until it is removed
C15_NoExpiry ==
  ttl <= 0 => \A i \in Ids :
    given[i].obj # 0 => (store[i].obj = given[i].obj /\ CacheGet(i) = given[i].obj)

\* without a time to live, active_sessions has counted every id's session
\* after more time than any time to live of the model
C15_Witness ==
  /\ ttl <= 0 /\ now = MaxTime
  /\ ret.op = "active" /\ ret.val = NIds
  /\ \A i \in Ids : CacheGet(i) # 0

\* thread th's remove returns in this step
RemoveReturns(th) == rpc[th] = "in" /\ rop[th] = "remove" /\ rpc'[th] = "idle"

\* C16: remove returns for an id that is there and for one that is not;
\* afterwards the id has no session, every other id's session is as it was,
\* and removing an id that has no session changes nothing at all
C16_RemoveIdempotent ==
  [][ \A th \in Threads : (rpc[th] = "in" /\ rop[th] = "remove") =>
        /\ ENABLED RegRemove(th)
        /\ RemoveReturns(th) =>
             LET i == rid[th]
             IN /\ store'[i].obj = 0 \/ Expired(store'[i])
                /\ \A j \in Ids \ {i} : store'[j] = store[j]
                /\ CacheGet(i) = 0 => (store' = store /\ order' = order) ]_vars

\* an id whose session had been removed before has been removed again,
\* finding nothing, while another id's session is there
C16_Witness ==
  /\ ret.op = "remove" /\ ret.val = 0
  /\ gone[ret.id] # 0 /\ given[ret.id] = NoEntry
  /\ \E j \in Ids \ {ret.id} : CacheGet(j) # 0

\* C17: remove of a live session leaves its STT and TTS clients closed
C17_RemoveCloses ==
  [][ \A th \in Threads : (RemoveReturns(th) /\ CacheGet(rid[th]) # 0) =>
        CacheGet(rid[th]) \in closed' ]_vars

\* C18: once the session's clean-up has run to its end the listener has
\* ended, no chat or tts task of the session is running, the STT connection
\* is closed and the registry no longer holds the session
C18_CleanupStopsAll ==
  pc[MainT] = "done" =>
    /\ pc[LisT] = "done"
    /\ \A x \in WorkTasks : ~Live(x)
    /\ ~sttOpen
    /\ ~registered

\* C19: when the STT token fetch or the STT connect has failed, the client
\* has been sent `error` and no `ready`, no listener and no chat or tts task
\* was started, and the registry no longer holds the session
C19_ConnectFailure ==
  pc[MainT] = "refused" =>
    /\ out = <<Frame("error", 0)>>
    /\ pc[LisT] = "none"
    /\ \A x \in WorkTasks : pc[x] = "none"
    /\ ~sttOpen
    /\ ~registered

\* this step sends the `error` frame of turn t
ErrorSent(t) == InSeq(Frame("error", t), out') /\ tlog'[t] = Append(tlog[t], "error")

\* C20: the step that sends the `error` frame of the current turn, the one
\* spawned last, ends the turn and leaves the listener and the receive loop
\* running and the session idle; every turn, those after a failed one
\* included, gets the frames of a normal turn or of a failed one
C20_FailureNotFatal ==
  /\ [][ \A t \in Turns : (ErrorSent(t) /\ t = nturn) =>
           /\ pc'[ChatT(t)] = "done" /\ pc'[TtsT(t)] \in {"none", "done"}
           /\ pc'[LisT] \in {"recv", "gTurn"}
           /\ pc'[MainT] \in {"recv", "gCancel", "clearing", "gReset", "resetWait"}
           /\ Idle' ]_vars
  /\ [](\A u \in Turns :
          \/ \E k \in 0..MaxChunks : IsPrefix(tlog[u], TurnPattern(k))
          \/ \E k \in 0..MaxChunks : tlog[u] = FailedPattern(k)
          \/ tlog[u] = <<"turn", "thinking", "error">>)

\* the tts task of turn t ends in this step, and not by a cancellation
TtsEnds(t) ==
  /\ pc[TtsT(t)] \in {"connecting", "streaming"} /\ ~mustCancel[TtsT(t)]
  /\ pc'[TtsT(t)] = "done"

\* C21: the step in which a tts task ends without having been cancelled sends
\* the `tts_done` frame of its turn and leaves the session idle
C21_TtsDoneAlways ==
  [][ \A t \in Turns : TtsEnds(t) =>
        /\ InSeq(Frame("tts_done", t), out')
        /\ Idle' ]_vars

\* the chat call of turn t has returned and its chat task ends in this step
ChatAnswers(t) ==
  /\ pc[ChatT(t)] = "running" /\ pc'[ChatT(t)] = "done"
  /\ InSeq(Frame("chat", t), out')

\* C22: when a chat task ends with an answer, a tts task is spawned exactly
\* if a TTS key is configured and the answer is not empty; when none is
\* spawned, `tts_done` is sent and the session is idle
C22_TtsSpawnedIff ==
  [][ \A t \in Turns : ChatAnswers(t) =>
        /\ pc'[TtsT(t)] = "start" <=> (ttsKey /\ wake[ChatT(t)] # "empty")
        /\ pc'[TtsT(t)] = "start" => tts_task' = TtsT(t)
        /\ pc'[TtsT(t)] # "start" =>
             /\ pc'[TtsT(t)] = "none"
             /\ InSeq(Frame("tts_done", t), out')
             /\ Idle' ]_vars

\* C23: a task handle that is not None names a task that is scheduled or
\* running, and when the session is idle both handles are None
C23_HandlesTrackWork ==
  /\ chat_task # NoTask => Live(chat_task)
  /\ tts_task # NoTask => Live(tts_task)
  /\ Idle => (chat_task = NoTask /\ tts_task = NoTask)

\* C24: a call of the VoiceAgentManager or VoiceAgent constructor that has
\* no AssemblyAI key or no Rime key, neither as argument nor in the
\* environment, raises the ValueError of that key and constructs nothing;
\* an agent made by a manager exists only if a manager exists
NoKey(c, e) ==
  \/ c.aai \in {"none", ""} /\ e.aai \in {"none", ""}
  \/ c.rime \in {"none", ""} /\ e.rime \in {"none", ""}

C24_MissingKeyFatal ==
  [][ /\ ( /\ ncalls' = ncalls + 1
           /\ call'.fn \in {"VoiceAgentManager", "VoiceAgent"}
           /\ NoKey(call', env') )
        => /\ raised' \in {"assemblyai_api_key", "rime_api_key"}
           /\ mgrs' = mgrs
           /\ agents' = agents
      /\ mgrs' = {} => \A a \in agents' : a.by # "get_or_create" ]_vars

C24_Witness ==
  /\ call.fn = "VoiceAgentManager"
  /\ call.aai = "k" /\ call.rime = "" /\ env.rime = "none"
  /\ raised = "rime_api_key"
  /\ mgrs = {} /\ agents = {}

GreetingFailed == GreetTts /\ InSeq("error", tlog[1])

C26_GreetingFailureNonFatal ==
  /\ GreetingFailed =>
       /\ ~mustCancel[LisT] /\ pc[LisT] # "done"
       /\ pc[MainT] \in {"recv", "gCancel", "clearing", "gReset", "resetWait"}
  /\ resp # NoResp =>
       /\ ~resp.raised
       /\ resp.text = greeting
       /\ resp.error => resp.audio = "none"

\* the greeting's synthesis failed, a later turn got its `chat` frame, and
\* greet() has returned after a failed synthesis
C26_Witness ==
  /\ GreetingFailed
  /\ InSeq("chat", tlog[2])
  /\ resp.error /\ resp.text = "hi" /\ resp.audio = "none"

\* this step ends the chat task of turn t by an exception of its chat call
\* or by a CancelledError
ChatEndsBadly(t) ==
  /\ Live(ChatT(t)) /\ pc'[ChatT(t)] = "done"
  /\ mustCancel[ChatT(t)] \/ wake[ChatT(t)] = "exc"

\* C27: the step in which a chat task ends by raising or by being cancelled
\* sends an `error` frame to the client and leaves the session idle
C27_ChatEndSignalled ==
  [][ \A t \in Turns : ChatEndsBadly(t) =>
        /\ InSeq(Frame("error", t), out')
        /\ Idle' ]_vars

\* the same for a chat task that ends by raising only
C27_RaisedSignalled ==
  [][ \A t \in Turns : (ChatEndsBadly(t) /\ ~mustCancel[ChatT(t)]) =>
        InSeq(Frame("error", t), out') ]_vars

\* C28: the clear operation is sent to STT only when the gather of the cancel
\* frame's _cancel_inflight has returned, and before the `cancelled` frame;
\* `cancelled` is sent only after the clear operation was sent or failed;
\* in both cases the next step of the receive loop sends `cancelled` and
\* the loop receives again
C28_CancelOrder ==
  [][ /\ pc[MainT] = "gCancel" /\ pc'[MainT] # "gCancel" =>
           /\ \A k \in 1..3 : pc[ChildT("main", k)] = "idle"
           /\ pend["main"] = 0
           /\ \A t \in cancelAns : pc[ChatT(t)] = "done"
           /\ pc'[MainT] = "clearing" /\ sttOp' \in {"clear", "failed"}
           /\ ~InSeq(Frame("cancelled", 0), out')
      /\ sttOp' # sttOp /\ sttOp' # "none" => pc[MainT] = "gCancel"
      /\ InSeq(Frame("cancelled", 0), out') /\ (out' # out \/ pc' # pc) =>
           pc[MainT] = "clearing" /\ sttOp \in {"clear", "failed"}
      /\ pc[MainT] = "clearing" /\ pc'[MainT] # "clearing" =>
           out' = <<Frame("cancelled", 0)>> /\ pc'[MainT] = "recv" ]_vars

\* the clear operation has failed after a cancel frame cancelled a chat task
\* before its chat call answered; `cancelled` is still to be sent
C28_Witness ==
  /\ pc[MainT] = "clearing" /\ sttOp = "failed"
  /\ \E t \in cancelAns : pc[ChatT(t)] = "done" /\ t \in cancelledRun

\* the gather children of owner o's cleanup start in this step
CleanupCancels(o) == pc[ChildT(o, 1)] = "start" /\ pc'[ChildT(o, 1)] # "start"

\* the receive loop or the listener takes its snapshot in this step
Snapshots(o) == pc[ChildT(o, 1)] # "start" /\ pc'[ChildT(o, 1)] = "start"

InGather(o) ==
  IF o = "lis" THEN pc[LisT] = "gTurn" ELSE pc[MainT] \in {"gCancel", "gReset"}

\* C30: _cancel_inflight is run by the receive loop and the listener only; no
\* step of a task marks that task for cancellation and the listener's own
\* cleanup never cancels the listener; no task waits for itself; and every
\* _cancel_inflight that was started returns: its caller is outside the
\* gather again and again
C30_NoSelfCancel ==
  /\ [][ /\ (\E o \in Owners : Snapshots(o)) => (AtHead(MainT) \/ AtHead(LisT))
         /\ \A x \in CancelTasks :
              (AtHead(x) /\ ~mustCancel[x]) => ~mustCancel'[x]
         /\ (CleanupCancels("lis") /\ ~mustCancel[LisT]) => ~mustCancel'[LisT]
       ]_vars
  /\ [](\A x \in CancelTasks : ~InSeq(x, waiters[x]))
  /\ \A o \in Owners : []<>(~InGather(o))

\* a chat task marked for cancellation by a cleanup has ended, the gather
\* has returned, and its caller is receiving again
C30_Witness ==
  /\ \E t \in Turns : t \in cancelledRun /\ pc[ChatT(t)] = "done"
  /\ \A o \in Owners : ~InGather(o) /\ pend[o] = 0
  /\ pc[MainT] = "recv" /\ pc[LisT] = "recv"
  /\ \E i \in 1..Len(out) : out[i].type \in {"cancelled", "reset"}

\* the receive loop reads a binary frame and the send to STT fails
AudioDropped ==
  /\ AtHead(MainT) /\ pc[MainT] = "recv"
  /\ inbox # <<>> /\ Head(inbox) = "audio" /\ inbox' = Tail(inbox)
  /\ sttOp' = "dropped"

\* C31: the step that reads a binary frame whose send to STT fails, as it
\* does when the STT connection is closed, sends nothing to the client,
\* changes no task, handle or agent state, and leaves the receive loop at
\* ws.receive(); with the STT connection closed every binary frame ends so
C31_AudioDropped ==
  [][ /\ AudioDropped =>
           /\ out' = <<>>
           /\ pc' = pc /\ SessionState' = SessionState
           /\ chat_task' = chat_task /\ tts_task' = tts_task
           /\ tlog' = tlog
      /\ ( /\ ~sttOpen /\ inbox # <<>> /\ Head(inbox) = "audio"
           /\ inbox' = Tail(inbox) ) => sttOp' = "dropped" ]_vars

\* a binary frame was dropped after the STT connection closed, while a
\* chat task was running, and the loop is receiving
C31_Witness ==
  /\ sttOp = "dropped" /\ ~sttOpen
  /\ pc[MainT] = "recv" /\ inbox = <<>>
  /\ \E t \in Turns : pc[ChatT(t)] = "running"

\* the receive loop reads a text frame that is not JSON, or is JSON without
\* a type of "cancel" or "reset"
ReadsIgnored ==
  /\ AtHead(MainT) /\ pc[MainT] = "recv"
  /\ inbox # <<>> /\ Head(inbox) \in {"junk", "other", "scalar"}
  /\ inbox' = Tail(inbox)

\* C40: the step that reads a text frame that is not valid JSON, or whose
\* type is neither "cancel" nor "reset", sends no frame, changes no task, no
\* cancellation mark, no handle and no agent state, sends nothing to STT, and
\* leaves the receive loop at ws.receive()
C40_UnknownFrameIgnored ==
  [][ ReadsIgnored =>
        /\ out' = <<>>
        /\ pc' = pc /\ SessionState' = SessionState
        /\ chat_task' = chat_task /\ tts_task' = tts_task
        /\ tlog' = tlog /\ sttOp' = sttOp /\ sttbox' = sttbox ]_vars

\* C38: the step in which the listener reads a formatted Turn event whose
\* transcript is empty or only whitespace sends no frame to the client,
\* cancels nothing (no task's position or cancellation mark changes, the
\* handles stay), and spawns no chat task
C38_BlankTurnIgnored ==
  [][ ( /\ AtHead(LisT) /\ pc[LisT] = "recv"
        /\ Hears([type |-> "BlankTurn", flag |-> TRUE]) ) =>
        /\ out' = <<>>
        /\ pc' = pc /\ SessionState' = SessionState
        /\ chat_task' = chat_task /\ tts_task' = tts_task
        /\ nturn' = nturn /\ tlog' = tlog ]_vars

\* a formatted Turn event without text was read while the synthesis of a
\* turn was streaming, which still streams and is still the one the handle
\* names
C38_Witness ==
  /\ heard = [type |-> "BlankTurn", flag |-> TRUE]
  /\ pc[LisT] = "recv" /\ sttbox = <<>>
  /\ \E t \in Turns : pc[TtsT(t)] = "streaming" /\ tts_task = TtsT(t)

\* a configuration frame, one text frame or more, the end-of-input sentinel
Utterance(s) ==
  /\ Len(s) >= 3
  /\ s[1] = "config" /\ s[Len(s)] = "__END__"
  /\ \A i \in 2..(Len(s) - 1) : s[i] = "text"

\* C32: the frames a synthesis sends upstream are, on a connection of its
\* own that had carried nothing, one configuration frame, then one text frame
\* or more, then one end-of-input sentinel; and an audio frame of the
\* synthesis is relayed to the client only after the sentinel was sent
C32_UpstreamOrder ==
  [][ \A t \in Turns :
        /\ (up'[t] # up[t] /\ up'[t] # <<>>) =>
              (up[t] = <<>> /\ Utterance(up'[t]))
        /\ InSeq(Frame("audio", t), out') => InSeq("__END__", up'[t]) ]_vars

\* chat() of turn t has been called and has not returned or raised
ChatCallInFlight(t) ==
  pc[ChatT(t)] \in {"cancelWait", "building", "running"}

\* agent.run of turn t's chat call is executing in its worker thread
AgentRunExecutes(t) == wpc[t] \in {"begin", "steps"}

\* C33: at most one chat call of the agent executes its agent run at a time
\* (no two worker threads are inside agent.run, and no two chat calls are
\* past their `await self.cancel()`), and _current_task is None whenever no
\* chat call is in flight
C33_OneRun ==
  /\ \A t, u \in Turns :
        (t # u /\ AgentRunExecutes(t)) => ~AgentRunExecutes(u)
  /\ \A t, u \in Turns :
        (t # u /\ pc[ChatT(t)] \in {"building", "running"}) =>
           pc[ChatT(u)] \notin {"building", "running"}
  /\ (\A t \in Turns : ~ChatCallInFlight(t)) => cur = NoTask

\* the `retries` the tool was configured with (the default is 1)
ConfiguredRetries == IF web.arg = <<>> THEN 1 ELSE web.arg[1]

\* connection error, timeout, or HTTP status >= 500
Transient == {"http5xx", "connect", "timeout"}

\* C34: when fetch has returned, (1) if every attempt failed transiently,
\* the attempts made after the first are as many as the configured `retries`;
\* (2) an attempt that ended with an HTTP status below 500 is the last one;
\* (3) unless the last attempt succeeded, the result is an "Error: ..." string
C34_Retries ==
  web.pc = "returned" =>
    /\ (\A i \in 1..Len(web.log) : web.log[i] \in Transient) =>
          Len(web.log) - 1 = ConfiguredRetries
    /\ \A i \in 1..Len(web.log) :
          web.log[i] = "http4xx" => i = Len(web.log)
    /\ web.log[Len(web.log)] # "ok" => web.result = "error"

\* C35: a session that get_or_create has returned, that was not removed and
\* was last accessed within its time to live, is in the registry, however
\* many sessions of other ids are created, and get_or_create for its id
\* returns that same object
C35_NotDropped ==
  [][ /\ \A i \in Ids :
           (GivenLive(i) /\ store[i].obj = given[i].obj) =>
              \/ store'[i].obj = given[i].obj
              \/ \E th \in Threads : RemoveReturns(th) /\ rid[th] = i
              \/ Expired(store[i])
      /\ \A th \in Threads :
           (GocReturns(th) /\ GivenLive(rid[th])) =>
              ret'.val = given[rid[th]].obj ]_vars

\* the task x is named by the handle h, or by the snapshot of the handle
\* that a caller of _cancel_inflight (or the cleanup) cancels from, or is
\* awaited by a _cancel_task that has cancelled it
Recorded(x, h, snap) ==
  \/ h = x
  \/ \E o \in Owners : snap[o] = x
  \/ \E c \in ChildTasks : InSeq(c, waiters[x])

\* C36: every chat task and every tts task that is scheduled or running is
\* the one its handle names (or the one a snapshot taken from the handle
\* names, until the _cancel_task that awaits it returns), and no assignment
\* to a handle
\* replaces the name of a task that is still scheduled or running
C36_HandlesReachTasks ==
  [][ /\ \A t \in Turns :
           /\ Live(ChatT(t))' => Recorded(ChatT(t), chat_task, ct)'
           /\ Live(TtsT(t))' => Recorded(TtsT(t), tts_task, tt)'
      /\ (chat_task' \notin {chat_task, NoTask} /\ chat_task # NoTask) =>
            ~Live(chat_task)
      /\ (tts_task' \notin {tts_task, NoTask} /\ tts_task # NoTask) =>
            ~Live(tts_task) ]_vars

\* C37: from the sending of a `cancelled` frame until the `turn` frame of a
\* later turn is sent, no audio frame and no `chat` or `tts_done` frame is
\* sent to the client
C37_QuietAfterCancelled ==
  [][ hush => \A i \in 1..Len(out') :
                 out'[i].type \notin {"audio", "chat", "tts_done"} ]_vars

\* no further formatted Turn arrives and the listener has read them all
NoMoreTurns == turnsLeft = 0 /\ sttbox = <<>> /\ pc[LisT] = "recv"

\* turn t has got its terminal frame
Ended(t) == InSeq("tts_done", tlog[t]) \/ InSeq("error", tlog[t])

\* C39: once no further event arrives, every turn whose chat task or tts
\* task is in flight ends with a `tts_done` or an `error` frame and the
\* session is idle then, and an idle session stays idle
C39_TurnEnds ==
  /\ \A t \in Turns :
        (NoMoreTurns /\ (Live(ChatT(t)) \/ Live(TtsT(t)))) ~> (Ended(t) /\ Idle)
  /\ [][(NoMoreTurns /\ Idle) => Idle']_vars

\* the last turn was accepted after all others, got its answer and its
\* speech, and the session is idle
C39_Witness ==
  /\ NoMoreTurns /\ Idle /\ nturn = LiveTurns
  /\ tlog[nturn] = TurnPattern(MaxChunks)

====
